---- MODULE Spec2Model ----
(***************************************************************************)
(* pkgbin: a caching reverse proxy for NPM, RubyGems and PyPI.             *)
(*                                                                         *)
(* One server process per ecosystem.  The model follows one process: the   *)
(* root handler that classifies requests, the artifact download handler    *)
(* with its per-file lock registry, the cache directory, the packages      *)
(* table and the purge handler.  Every step is one system call, lock       *)
(* operation, upstream event or database call of the Go code, so that the  *)
(* goroutines serving different requests interleave as the scheduler       *)
(* allows.  Strings are sequences of one-character strings.                *)
(***************************************************************************)
EXTENDS Integers, Sequences, FiniteSets, TLC

(***************************************************************************)
(* Bounds of the model.                                                    *)
(***************************************************************************)
MaxReq == 2         \* download requests that run beside a purge request
MaxFlight == 3      \* download requests that run beside one another alone
MaxBody == 1        \* bytes in an upstream response body
MaxArtifacts == 1   \* distinct artifacts the clients ask for
MaxRefresh == 2     \* refresh requests
MaxTime == 41       \* minutes the clock runs
MaxCalls == 3       \* concurrent calls of record_package_access
MaxRuns == 1        \* ticks of the stats ticker after the first update

Requests == 1..(IF MaxReq > MaxFlight THEN MaxReq ELSE MaxFlight)

(***************************************************************************)
(* strings / path/filepath as used by the handlers                         *)
(***************************************************************************)
HasPrefix(s, p) ==
    /\ Len(s) >= Len(p)
    /\ SubSeq(s, 1, Len(p)) = p

HasSuffix(s, x) ==
    /\ Len(s) >= Len(x)
    /\ SubSeq(s, Len(s) - Len(x) + 1, Len(s)) = x

TrimPrefix(s, p) == IF HasPrefix(s, p) THEN SubSeq(s, Len(p) + 1, Len(s)) ELSE s

UpperChars == <<"A","B","C","D","E","F","G","H","I","J","K","L","M",
                "N","O","P","Q","R","S","T","U","V","W","X","Y","Z">>
LowerChars == <<"a","b","c","d","e","f","g","h","i","j","k","l","m",
                "n","o","p","q","r","s","t","u","v","w","x","y","z">>

LowerChar(c) ==
    IF \E i \in DOMAIN UpperChars : UpperChars[i] = c
    THEN LowerChars[CHOOSE i \in DOMAIN UpperChars : UpperChars[i] = c]
    ELSE c

ToLower(s) == [i \in DOMAIN s |-> LowerChar(s[i])]

\* index of the first occurrence of sep in s at or after position from, 0 if none
RECURSIVE IndexFrom(_, _, _)
IndexFrom(s, sep, from) ==
    IF from + Len(sep) - 1 > Len(s) THEN 0
    ELSE IF SubSeq(s, from, from + Len(sep) - 1) = sep THEN from
    ELSE IndexFrom(s, sep, from + 1)

\* strings.Split(s, sep) for a non-empty sep: the sequence of the pieces
RECURSIVE Split(_, _)
Split(s, sep) ==
    LET i == IndexFrom(s, sep, 1)
    IN  IF i = 0 THEN <<s>>
        ELSE <<SubSeq(s, 1, i - 1)>> \o Split(SubSeq(s, i + Len(sep), Len(s)), sep)

\* strings.Join(parts, sep)
RECURSIVE Join(_, _)
Join(parts, sep) ==
    IF Len(parts) = 0 THEN <<>>
    ELSE IF Len(parts) = 1 THEN parts[1]
    ELSE parts[1] \o sep \o Join(Tail(parts), sep)

\* strings.ReplaceAll(s, old, new) for a non-empty old
ReplaceAll(s, old, new) == Join(Split(s, old), new)

RECURSIVE StripTrailingSlashes(_)
StripTrailingSlashes(s) ==
    IF Len(s) > 0 /\ s[Len(s)] = "/" THEN StripTrailingSlashes(SubSeq(s, 1, Len(s) - 1))
    ELSE s

\* filepath.Base: "." for the empty path, "/" for a path of slashes only,
\* otherwise the last element once trailing slashes are dropped
Base(p) ==
    IF Len(p) = 0 THEN <<".">>
    ELSE LET q == StripTrailingSlashes(p)
             parts == Split(q, <<"/">>)
         IN  IF Len(q) = 0 THEN <<"/">> ELSE parts[Len(parts)]

\* the characters file names and patterns are written in, in byte order
ByteOrder == <<"*", "-", ".", "/", "?", "@">> \o UpperChars \o <<"_">> \o LowerChars

Ord(c) == CHOOSE i \in DOMAIN ByteOrder : ByteOrder[i] = c

\* s < t as Go compares strings
RECURSIVE StrLess(_, _)
StrLess(s, t) ==
    IF Len(t) = 0 THEN FALSE
    ELSE IF Len(s) = 0 THEN TRUE
    ELSE IF s[1] # t[1] THEN Ord(s[1]) < Ord(t[1])
    ELSE StrLess(Tail(s), Tail(t))

\* sort.Strings on a set of names
RECURSIVE SortStrings(_)
SortStrings(S) ==
    IF S = {} THEN <<>>
    ELSE LET m == CHOOSE x \in S : \A y \in S \ {x} : StrLess(x, y)
         IN  <<m>> \o SortStrings(S \ {m})

\* filepath.Match for patterns of literal characters, '*' and '?', on a name
\* without separators
RECURSIVE Match(_, _)
Match(pattern, name) ==
    IF Len(pattern) = 0 THEN Len(name) = 0
    ELSE IF pattern[1] = "*"
    THEN \/ Match(Tail(pattern), name)
         \/ Len(name) > 0 /\ Match(pattern, Tail(name))
    ELSE /\ Len(name) > 0
         /\ pattern[1] = "?" \/ pattern[1] = name[1]
         /\ Match(Tail(pattern), Tail(name))

\* filepath.Glob's hasMeta
hasMeta(pattern) == \E i \in DOMAIN pattern : pattern[i] \in {"*", "?", "["}

\* filepath.Clean on the elements of a path below a directory: empty elements
\* and "." go, ".." takes the element before it away, and a ".." with nothing
\* before it stays and leads out of the directory
RECURSIVE CleanElems(_, _)
CleanElems(elems, out) ==
    IF Len(elems) = 0 THEN out
    ELSE LET e == Head(elems)
         IN  IF Len(e) = 0 \/ e = <<".">> THEN CleanElems(Tail(elems), out)
             ELSE IF e = <<".", ".">> /\ Len(out) > 0 /\ out[Len(out)] # <<".", ".">>
             THEN CleanElems(Tail(elems), SubSeq(out, 1, Len(out) - 1))
             ELSE CleanElems(Tail(elems), Append(out, e))

\* filepath.Join(cacheDir, pkgName), written as a path from cacheDir: a name
\* in the directory is itself, "../s" is the file s beside the directory
JoinCacheDir(pkgName) == Join(CleanElems(Split(pkgName, <<"/">>), <<>>), <<"/">>)

\* filepath.Glob on a cleaned pattern: it is matched element by element, a
\* directory listing has no ".." entry, and no metacharacter matches a
\* separator
MatchPath(pattern, p) ==
    LET ps == Split(pattern, <<"/">>)
        ns == Split(p, <<"/">>)
    IN  /\ Len(ps) = Len(ns)
        /\ \A i \in DOMAIN ps :
               IF ns[i] = <<".", ".">> THEN ps[i] = ns[i] ELSE Match(ps[i], ns[i])

(***************************************************************************)
(* Cache file names                                                        *)
(***************************************************************************)
\* internal/handlers/npm_download.go generateCacheFileName
generateCacheFileName(urlPath) ==
    LET p == TrimPrefix(urlPath, <<"/">>)
        parts == Split(p, <<"/","-","/">>)
    IN  IF HasPrefix(p, <<"@">>) /\ Len(parts) = 2
        THEN LET scope == ReplaceAll(TrimPrefix(parts[1], <<"@">>), <<"/">>, <<"_","_">>)
                 tarballName == Base(parts[2])
             IN  <<"@">> \o scope \o <<"_","_">> \o tarballName
        ELSE Base(p)

\* a file name made of the last element of the path alone
generatePyPICacheFileNameBase(urlPath) == Base(TrimPrefix(urlPath, <<"/">>))

\* generatePyPICacheFileName
generatePyPICacheFileName(urlPath) ==
    LET p == TrimPrefix(urlPath, <<"/">>)
        parts == Split(p, <<"/">>)
    IN  IF Len(parts) > 1
        THEN Join(SubSeq(parts, 1, Len(parts) - 1), <<"_","_">>)
                 \o <<"_","_">> \o parts[Len(parts)]
        ELSE Base(p)

\* file names that keep the directories of the path
FileNameKeepsDirs(e, urlPath) == TrimPrefix(urlPath, <<"/">>)

\* the file name each download handler derives from r.URL.Path
FileName(e, urlPath) ==
    CASE e = "npm"  -> generateCacheFileName(urlPath)
      [] e = "gem"  -> Base(urlPath)
      [] e = "pypi" -> generatePyPICacheFileName(urlPath)

TmpSuffix == <<".","t","m","p">>
TempPath(name) == name \o TmpSuffix

(***************************************************************************)
(* Classification in the root handler of each server                       *)
(***************************************************************************)
\* a test of the suffixes on the path as it was sent
isPackageFileExact(path) ==
    \/ HasSuffix(path, <<".","w","h","l">>)
    \/ HasSuffix(path, <<".","t","a","r",".","g","z">>)
    \/ HasSuffix(path, <<".","z","i","p">>)
    \/ HasSuffix(path, <<".","e","g","g">>)
    \/ HasSuffix(path, <<".","t","a","r",".","b","z","2">>)

\* cmd/python_cache/main.go isPackageFile
isPackageFile(path) ==
    LET lowerPath == ToLower(path)
    IN  \/ HasSuffix(lowerPath, <<".","w","h","l">>)
        \/ HasSuffix(lowerPath, <<".","t","a","r",".","g","z">>)
        \/ HasSuffix(lowerPath, <<".","z","i","p">>)
        \/ HasSuffix(lowerPath, <<".","e","g","g">>)
        \/ HasSuffix(lowerPath, <<".","t","a","r",".","b","z","2">>)

\* the artifact predicate of each ecosystem as the root handlers test it
ArtifactPath(e, path) ==
    CASE e = "npm"  -> HasSuffix(path, <<".","t","g","z">>)
      [] e = "gem"  -> HasPrefix(path, <<"/","g","e","m","s","/">>)
                         /\ HasSuffix(path, <<".","g","e","m">>)
      [] e = "pypi" -> isPackageFile(path)

\* the condition under which each root handler calls its download handler
NPMIntercepts(m, path) == m = "GET" /\ ArtifactPath("npm", path)
GemIntercepts(m, path) == ArtifactPath("gem", path)
PyPIIntercepts(m, path) == m = "GET" /\ ArtifactPath("pypi", path)

Intercepts(e, m, path) ==
    CASE e = "npm"  -> NPMIntercepts(m, path)
      [] e = "gem"  -> GemIntercepts(m, path)
      [] e = "pypi" -> PyPIIntercepts(m, path)

(***************************************************************************)
(* State                                                                   *)
(***************************************************************************)
VARIABLES
    eco,            \* which server this process is: "npm", "gem" or "pypi"
    pc,             \* pc[r]: where request r's goroutine stands
    method,         \* method[r]: r.Method
    path,           \* path[r]: r.URL.Path
    fileName,       \* fileName[r]: the cache file name the handler derived
    status,         \* status[r]: what the client of r received
    lock,           \* lock[r]: the mutex r took from the registry (0: none yet)
    bodyLen,        \* bodyLen[r]: length of the upstream response body
    written,        \* written[r]: bytes io.Copy has written so far
    served,         \* served[r]: the file http.ServeFile streamed to the client
    files,          \* the cache directory: file name -> file
    downloadLocks,  \* the lock registry: file name -> mutex (0: no entry)
    owner,          \* owner[m]: the request holding mutex m (0: unlocked)
    rows,           \* the packages table: name -> counters
    rec,            \* rec[r]: the UpdatePackageAccess calls r has made
    gets,           \* gets[r]: upstream GETs r has issued
    resp,           \* resp[r]: how the upstream answered r
    start,          \* start[r]: what r found when it arrived
    files0,         \* the cache directory at process start
    quiet,          \* no download request has run while the purge request ran
    proxied,        \* the request the root handler last gave to the reverse proxy
    ppc,            \* where the purge request stands
    packages,       \* req.Packages of the purge request
    pidx,           \* the index of the package name the purge loop is at
    matches,        \* the Glob matches purgeHandler has still to remove
    preq,           \* the purge request: its method and body
    presp,          \* the response of the purge request
    rpc,            \* rpc[h]: where refresh request h stands
    rresp,          \* rresp[h]: the response of refresh request h
    refreshMutex,   \* the holder of refreshMutex (0: unlocked)
    refreshInProgress,
    lastRefreshTime,    \* in minutes; 0 is the zero time.Time
    now,            \* the clock, in minutes
    jpc,            \* jpc[h]: where the job that request h started stands
    began,          \* began[h]: when request h was accepted (0: it was not)
    cpc,            \* cpc[c]: where call c of record_package_access stands
    cname,          \* cname[c]: p_name of call c
    chit,           \* chit[c]: is_hit of call c
    gone,           \* gone[r]: the client of r has closed its connection
    asked,          \* the request a client sent that went to the reverse proxy
    outreq,         \* that request as the Director left it for the transport
    upresp,         \* the response the upstream gave to it
    reply,          \* the response the client received for it
    downloadLocksMutex, \* the request holding downloadLocksMutex (0: unlocked)
    beside,         \* beside[r]: the requests under a per-key mutex when r took its own
    spc,            \* where the goroutine of InitStats stands
    runs,           \* the ticks of its ticker so far
    sample,         \* the locals of updateStats and of the Walk it runs
    GlobalStats,    \* the fields of stats.GlobalStats
    dpc,            \* where the dashboard request stands
    dash,           \* what the dashboard request has put in its page
    mu,             \* s.mu of GlobalStats: a writer holds it, or so many readers
    widx,           \* the field updateStats assigns next under s.mu (0: not there)
    ridx,           \* the field Get reads next under s.mu (0: not there)
    wrote,          \* wrote[f]: the run of updateStats that assigned field f last
    seen,           \* seen[f]: the run whose value of f the dashboard request read
    outside         \* outside[p]: the file at path p, outside the cache directory, exists

reqVars == <<pc, method, path, fileName, status, lock, bodyLen, written, served>>
histVars == <<rec, gets, resp, start, files0, quiet, proxied>>
purgeVars == <<ppc, packages, pidx, matches, preq, presp>>
refreshVars == <<rpc, rresp, refreshMutex, refreshInProgress, lastRefreshTime,
                 now, jpc, began>>
upsertVars == <<cpc, cname, chit>>
adminVars == <<refreshVars, upsertVars>>
muVars == <<mu, widx, ridx, wrote, seen>>
statsVars == <<spc, runs, sample, GlobalStats, dpc, dash, muVars>>
frontVars0 == <<gone, asked, outreq, upresp, reply, downloadLocksMutex, beside, statsVars>>
frontVars == <<frontVars0, outside>>
vars == <<eco, reqVars, files, downloadLocks, owner, rows, histVars, purgeVars,
          adminVars, frontVars>>

Ecosystems == {"npm", "gem", "pypi"}
Methods == {"GET", "POST"}

\* the request paths clients send to each server: the first MaxArtifacts of
\* a list of artifacts, and one metadata path
ArtifactList(e) ==
    CASE e = "npm"  -> << <<"/","@","s","/","a","/","-","/","a",".","t","g","z">>,
                          <<"/","a",".","t","g","z">>,
                          <<"/","b",".","t","g","z">> >>
      [] e = "gem"  -> << <<"/","g","e","m","s","/","a",".","g","e","m">>,
                          <<"/","g","e","m","s","/","b",".","g","e","m">>,
                          <<"/","g","e","m","s","/","c",".","g","e","m">> >>
      [] e = "pypi" -> << <<"/","p","/","a",".","W","H","L">>,
                          <<"/","a",".","z","i","p">>,
                          <<"/","p","/","a",".","e","g","g">> >>

ArtifactPaths(e) == { ArtifactList(e)[i] : i \in 1..MaxArtifacts }

OtherPaths(e) ==
    CASE e = "npm"  -> { <<"/","a">> }
      [] e = "gem"  -> { <<"/","a",".","g","e","m">> }
      [] e = "pypi" -> { <<"/","s","i","m","p","l","e","/","a","/">> }

RequestPaths(e) == ArtifactPaths(e) \cup OtherPaths(e)

\* /packages/source/p/pkg/pkg-1.0.tar.gz
PyPISourcePath ==
    <<"/","p","a","c","k","a","g","e","s","/","s","o","u","r","c","e","/","p","/",
      "p","k","g","/","p","k","g","-","1",".","0",".","t","a","r",".","g","z">>

\* more paths that pass the artifact test of each root handler: registry
\* paths of unscoped and scoped packages, nested and flat paths
KeyPathList(e) ==
    CASE e = "npm"  -> << <<"/","a","/","-","/","a",".","t","g","z">>,
                          <<"/","@","s","/","b","/","-","/","a",".","t","g","z">>,
                          <<"/","@","s","/","a","/","-","/","x","/","-","/","a",".","t","g","z">> >>
      [] e = "gem"  -> << <<"/","g","e","m","s","/","x","/","a",".","g","e","m">>,
                          <<"/","g","e","m","s","/","a","-","1",".","g","e","m">> >>
      [] e = "pypi" -> << <<"/","p","_","_","a",".","e","g","g">>,
                          <<"/","p","/","q","/","a",".","t","a","r",".","g","z">>,
                          PyPISourcePath >>

KeyPaths(e) ==
    { ArtifactList(e)[i] : i \in DOMAIN ArtifactList(e) }
        \cup { KeyPathList(e)[i] : i \in DOMAIN KeyPathList(e) }

Keys(e) == { FileName(e, p) : p \in ArtifactPaths(e) }
Names(e) == Keys(e) \cup { TempPath(k) : k \in Keys(e) }

\* two artifacts with two cache keys, for requests that must not meet
PairPaths(e) == { ArtifactList(e)[1], ArtifactList(e)[2] }
AllKeys(e) == Keys(e) \cup { FileName(e, p) : p \in PairPaths(e) }
AllNames(e) == AllKeys(e) \cup { TempPath(k) : k \in AllKeys(e) }

\* a directory entry; src is the request whose download created the file
\* (0: the file was there when the process started)
NoFile == [exists |-> FALSE, size |-> 0, readable |-> FALSE, src |-> 0]
File(n, rd, r) == [exists |-> TRUE, size |-> n, readable |-> rd, src |-> r]
\* the rows of one name: none
NoRow == <<>>
\* a new row
Row(h, m) == [hit |-> h, miss |-> m]
\* the four fields of CacheStats, in the order updateStats assigns and Get reads them
StatFieldList == <<"FileCount", "TotalSizeBytes", "PackagesServed", "LastUpdated">>
StatFields == { StatFieldList[i] : i \in DOMAIN StatFieldList }
Stats(fc, ts, ps, lu) ==
    [FileCount |-> fc, TotalSizeBytes |-> ts, PackagesServed |-> ps, LastUpdated |-> lu]
\* fileCount, totalSize and packagesServed of updateStats, and the names
\* filepath.Walk has read from the directory and has still to visit
NoSample == [names |-> <<>>, fileCount |-> 0, totalSize |-> 0, packagesServed |-> 0]
\* the page of the dashboard: nothing yet
NoDash == [code |-> "none", Packages |-> <<>>, stats |-> Stats(0, 0, 0, 0)]

RECURSIVE SumOver(_, _)
SumOver(f, S) ==
    IF S = {} THEN 0
    ELSE LET x == CHOOSE y \in S : TRUE IN f[x] + SumOver(f, S \ {x})

\* calculateCacheStats on a directory nobody changes meanwhile
FileCount(dir) == Cardinality({n \in DOMAIN dir : dir[n].exists})
TotalSize(dir) == SumOver([n \in DOMAIN dir |-> IF dir[n].exists THEN dir[n].size ELSE 0], DOMAIN dir)

\* SELECT COALESCE(SUM(cache_hit + cache_miss), 0) FROM packages
RECURSIVE SumRows(_)
SumRows(list) ==
    IF list = <<>> THEN 0 ELSE Head(list).hit + Head(list).miss + SumRows(Tail(list))
TotalPackagesServed(table) ==
    SumOver([n \in DOMAIN table |-> SumRows(table[n])], DOMAIN table)

NoStart == [file |-> NoFile, done |-> {}, purged |-> FALSE]
NoRequest == [method |-> "", path |-> <<>>]

\* a request on its way through the reverse proxy: Host, URL path and the
\* X-Original-Host header
Ask(h, p, x) == [host |-> h, path |-> p, xOriginalHost |-> x]
NoAsk == Ask(<<>>, <<>>, <<>>)

\* a response: Content-Type, Content-Encoding, the Content-Length header
\* (-1: none, the body is chunked), the body, and whether the body the
\* receiver got is as long as the header says
Response(ct, ce, cl, b, ok) ==
    [contentType |-> ct, contentEncoding |-> ce, contentLength |-> cl,
     body |-> b, complete |-> ok]
NoResponse == Response(<<>>, "", -1, <<>>, TRUE)

\* a request body: JSON that decodes to a package list, or anything else
Body(list) == [ok |-> TRUE, packages |-> list]
BadBody == [ok |-> FALSE, packages |-> <<>>]
NoPurgeRequest == [method |-> "", body |-> BadBody]

\* PurgeResponse, with the status code it is sent under
PurgeResponse(c, ok, msg, del) ==
    [code |-> c, success |-> ok, message |-> msg, deleted |-> del]
NoPurgeResponse == PurgeResponse("none", FALSE, "", <<>>)

\* RefreshResponse; at is the minute the handler decided in, remaining the
\* minutes the message of a blocked request names
RefreshResponse(ok, msg, t, rem) ==
    [success |-> ok, message |-> msg, at |-> t, remaining |-> rem]
NoRefreshResponse == RefreshResponse(FALSE, "", 0, 0)

\* files beside the cache directory: one in its parent directory, one in
\* another directory of the parent
OutsidePaths == { <<".", ".", "/", "s">>, <<".", ".", "/", "o", "/", "f">> }

RefreshReqs == 1..MaxRefresh
Calls == 1..MaxCalls

\* what the cache directory may hold at start: nothing, or one file at a
\* final path that the process cannot open
InitialFiles == { NoFile, File(1, FALSE, 0) }

Init ==
    /\ eco \in Ecosystems
    /\ pc = [r \in Requests |-> "idle"]
    /\ method = [r \in Requests |-> "GET"]
    /\ path = [r \in Requests |-> <<>>]
    /\ fileName = [r \in Requests |-> <<>>]
    /\ status = [r \in Requests |-> "none"]
    /\ lock = [r \in Requests |-> 0]
    /\ bodyLen = [r \in Requests |-> 0]
    /\ written = [r \in Requests |-> 0]
    /\ served = [r \in Requests |-> NoFile]
    /\ files \in [AllNames(eco) -> InitialFiles]
    /\ Cardinality({n \in AllNames(eco) : files[n].exists}) <= 1
    /\ \A n \in AllNames(eco) \ Keys(eco) : files[n] = NoFile
    /\ downloadLocks = [k \in AllKeys(eco) |-> 0]
    /\ owner = <<>>
    /\ rows = [n \in AllNames(eco) |-> NoRow]
    /\ rec = [r \in Requests |-> <<>>]
    /\ gets = [r \in Requests |-> 0]
    /\ resp = [r \in Requests |-> "none"]
    /\ start = [r \in Requests |-> NoStart]
    /\ files0 = files
    /\ quiet = TRUE
    /\ proxied = NoRequest
    /\ ppc = "idle"
    /\ packages = <<>>
    /\ pidx = 0
    /\ matches = <<>>
    /\ preq = NoPurgeRequest
    /\ presp = NoPurgeResponse
    /\ rpc = [h \in RefreshReqs |-> "idle"]
    /\ rresp = [h \in RefreshReqs |-> NoRefreshResponse]
    /\ refreshMutex = 0
    /\ refreshInProgress = FALSE
    /\ lastRefreshTime = 0
    /\ now = 1
    /\ jpc = [h \in RefreshReqs |-> "none"]
    /\ began = [h \in RefreshReqs |-> 0]
    /\ cpc = [c \in Calls |-> "idle"]
    /\ cname = [c \in Calls |-> <<>>]
    /\ chit = [c \in Calls |-> FALSE]
    /\ gone = [r \in Requests |-> FALSE]
    /\ asked = NoAsk
    /\ outreq = NoAsk
    /\ upresp = NoResponse
    /\ reply = NoResponse
    /\ downloadLocksMutex = 0
    /\ beside = [r \in Requests |-> {}]
    /\ spc = "sleep"
    /\ runs = 0
    /\ sample = NoSample
    /\ GlobalStats = Stats(FileCount(files), TotalSize(files), 0, now)
    /\ dpc = "idle"
    /\ dash = NoDash
    /\ mu = [w |-> FALSE, r |-> 0]
    /\ widx = 0
    /\ ridx = 0
    /\ wrote = [f \in StatFields |-> 0]
    /\ seen = [f \in StatFields |-> 0]
    /\ outside = [p \in OutsidePaths |-> TRUE]

(***************************************************************************)
(* The download handlers: HandleTarballDownload, GemDownloadHandler and    *)
(* PyPIDownloadHandler run the same steps on their own file name.          *)
(***************************************************************************)
\* filepath.Join(CacheDir, fileName), relative to the cache directory
localPath(r) == fileName[r]

\* a download written straight to the final path
tempPathIsLocalPath(r) == localPath(r)

\* localPath + ".tmp"
tempPath(r) == TempPath(localPath(r))

\* the check without the size test
StatExists(f) == f.exists

\* os.Stat(localPath) succeeded and stat.Size() > 0
StatLive(f) == f.exists /\ f.size > 0

\* os.Open(localPath) succeeded
OpenOK(f) == f.exists /\ f.readable

\* record_package_access: UPDATE packages SET ... WHERE name = p_name
UpdateRows(name, hit) ==
    [rows EXCEPT ![name] =
        [i \in DOMAIN @ |-> Row(@[i].hit + (IF hit THEN 1 ELSE 0),
                                @[i].miss + (IF hit THEN 0 ELSE 1))]]

\* record_package_access: FOUND after the UPDATE
Found(name) == Len(rows[name]) > 0

\* record_package_access: INSERT INTO packages (name, cache_hit, cache_miss)
InsertRow(name, hit) ==
    [rows EXCEPT ![name] =
        Append(@, Row(IF hit THEN 1 ELSE 0, IF hit THEN 0 ELSE 1))]

\* repositories.PackageRepo.UpdatePackageAccess(name, hit): the call of
\* record_package_access, with no other call between its two statements
UpdatePackageAccess(name, hit) ==
    IF Found(name) THEN UpdateRows(name, hit) ELSE InsertRow(name, hit)

\* the deferred lock.Unlock() on return
Unlocked(r) ==
    IF lock[r] # 0 /\ owner[lock[r]] = r
    THEN [owner EXCEPT ![lock[r]] = 0]
    ELSE owner

\* the handler returns after answering with st
Return(r, st) ==
    /\ pc' = [pc EXCEPT ![r] = "done"]
    /\ status' = [status EXCEPT ![r] = st]
    /\ owner' = Unlocked(r)

\* the root handler takes a request the download handler is to serve
Intercept(r, m, p) ==
    /\ pc[r] = "idle"
    /\ r > 1 => pc[r - 1] # "idle"
    /\ Intercepts(eco, m, p)
    /\ method' = [method EXCEPT ![r] = m]
    /\ path' = [path EXCEPT ![r] = p]
    /\ fileName' = [fileName EXCEPT ![r] = FileName(eco, p)]
    /\ pc' = [pc EXCEPT ![r] = "stat1"]
    /\ start' = [start EXCEPT ![r] =
                    [file |-> files[FileName(eco, p)],
                     done |-> {q \in Requests : pc[q] = "done"},
                     purged |-> (ppc = "done")]]
    /\ quiet' = (quiet /\ ppc \in {"idle", "done"})
    /\ UNCHANGED <<eco, frontVars, status, lock, bodyLen, written, served, files,
                   downloadLocks, owner, rows, rec, gets, resp, files0, proxied,
                   purgeVars, adminVars>>

\* the root handler gives any other request to proxy.ServeHTTP, which touches
\* neither the cache directory nor the registry nor the table
Forward(m, p) ==
    /\ ~Intercepts(eco, m, p)
    /\ proxied' = [method |-> m, path |-> p]
    /\ UNCHANGED <<eco, frontVars, reqVars, files, downloadLocks, owner, rows, rec, gets,
                   resp, start, files0, quiet, purgeVars, adminVars>>

\* the head of the download handler alone: the file name is derived from
\* r.URL.Path and the later steps of the request are not followed
Derive(r, p) ==
    /\ pc[r] = "idle"
    /\ r > 1 => pc[r - 1] # "idle"
    /\ Intercepts(eco, "GET", p)
    /\ method' = [method EXCEPT ![r] = "GET"]
    /\ path' = [path EXCEPT ![r] = p]
    /\ fileName' = [fileName EXCEPT ![r] = FileName(eco, p)]
    /\ pc' = [pc EXCEPT ![r] = "named"]
    /\ start' = [start EXCEPT ![r] =
                    [file |-> IF FileName(eco, p) \in DOMAIN files
                              THEN files[FileName(eco, p)] ELSE NoFile,
                     done |-> {q \in Requests : pc[q] = "done"},
                     purged |-> (ppc = "done")]]
    /\ UNCHANGED <<eco, frontVars, status, lock, bodyLen, written, served, files,
                   downloadLocks, owner, rows, rec, gets, resp, files0, quiet,
                   proxied, purgeVars, adminVars>>

\* fast path: os.Stat(localPath)
Stat1(r) ==
    /\ pc[r] = "stat1"
    /\ pc' = [pc EXCEPT ![r] = IF StatLive(files[localPath(r)]) THEN "open1" ELSE "getlock"]
    /\ UNCHANGED <<eco, frontVars, method, path, fileName, status, lock, bodyLen, written, served,
                   files, downloadLocks, owner, rows, histVars, purgeVars, adminVars>>

\* the fast path recording its hit with the flag of a miss
Open1RecordsMiss(r) ==
    /\ pc[r] = "open1"
    /\ IF OpenOK(files[localPath(r)])
       THEN /\ pc' = [pc EXCEPT ![r] = "serve"]
            /\ rows' = UpdatePackageAccess(fileName[r], FALSE)
            /\ rec' = [rec EXCEPT ![r] = Append(@, "miss")]
       ELSE /\ pc' = [pc EXCEPT ![r] = "remove1"]
            /\ UNCHANGED <<outside, rows, rec>>
    /\ UNCHANGED <<eco, frontVars, method, path, fileName, status, lock, bodyLen, written,
                   served, files, downloadLocks, owner, gets, resp, start,
                   files0, quiet, proxied, purgeVars, adminVars>>

\* the fast path without its return after the hit
Open1FallsThrough(r) ==
    /\ pc[r] = "open1"
    /\ IF OpenOK(files[localPath(r)])
       THEN /\ pc' = [pc EXCEPT ![r] = "getlock"]
            /\ rows' = UpdatePackageAccess(fileName[r], TRUE)
            /\ rec' = [rec EXCEPT ![r] = Append(@, "hit")]
       ELSE /\ pc' = [pc EXCEPT ![r] = "remove1"]
            /\ UNCHANGED <<outside, rows, rec>>
    /\ UNCHANGED <<eco, frontVars, method, path, fileName, status, lock, bodyLen, written,
                   served, files, downloadLocks, owner, gets, resp, start,
                   files0, quiet, proxied, purgeVars, adminVars>>

\* fast path: os.Open(localPath); a hit is recorded, or the file is to be removed
Open1(r) ==
    /\ pc[r] = "open1"
    /\ IF OpenOK(files[localPath(r)])
       THEN /\ pc' = [pc EXCEPT ![r] = "serve"]
            /\ rows' = UpdatePackageAccess(fileName[r], TRUE)
            /\ rec' = [rec EXCEPT ![r] = Append(@, "hit")]
       ELSE /\ pc' = [pc EXCEPT ![r] = "remove1"]
            /\ UNCHANGED <<outside, rows, rec>>
    /\ UNCHANGED <<eco, frontVars, method, path, fileName, status, lock, bodyLen, written, served,
                   files, downloadLocks, owner, gets, resp, start, files0, quiet, proxied, purgeVars, adminVars>>

\* fast path: os.Remove(localPath) of the file that could not be opened
Remove1(r) ==
    /\ pc[r] = "remove1"
    /\ files' = [files EXCEPT ![localPath(r)] = NoFile]
    /\ pc' = [pc EXCEPT ![r] = "getlock"]
    /\ UNCHANGED <<eco, frontVars, method, path, fileName, status, lock, bodyLen, written, served,
                   downloadLocks, owner, rows, histVars, purgeVars, adminVars>>

\* a registry that hands every request a mutex of its own
GetLockFresh(r) ==
    /\ pc[r] = "getlock"
    /\ owner' = Append(owner, 0)
    /\ downloadLocks' = [downloadLocks EXCEPT ![fileName[r]] = Len(owner) + 1]
    /\ lock' = [lock EXCEPT ![r] = Len(owner) + 1]
    /\ pc' = [pc EXCEPT ![r] = "lock"]
    /\ UNCHANGED <<eco, frontVars, method, path, fileName, status, bodyLen, written, served,
                   files, rows, histVars, purgeVars, adminVars>>

\* the registry lookup under downloadLocksMutex: get or create the mutex
GetLock(r) ==
    /\ pc[r] = "getlock"
    /\ IF downloadLocks[fileName[r]] # 0
       THEN /\ lock' = [lock EXCEPT ![r] = downloadLocks[fileName[r]]]
            /\ UNCHANGED <<outside, downloadLocks, owner>>
       ELSE /\ owner' = Append(owner, 0)
            /\ downloadLocks' = [downloadLocks EXCEPT ![fileName[r]] = Len(owner) + 1]
            /\ lock' = [lock EXCEPT ![r] = Len(owner) + 1]
    /\ pc' = [pc EXCEPT ![r] = "lock"]
    /\ UNCHANGED <<eco, frontVars, method, path, fileName, status, bodyLen, written, served, files,
                   rows, histVars, purgeVars, adminVars>>

\* a Lock that does not wait for the holder
LockBarges(r) ==
    /\ pc[r] = "lock"
    /\ owner' = [owner EXCEPT ![lock[r]] = r]
    /\ pc' = [pc EXCEPT ![r] = "recheck"]
    /\ beside' = [beside EXCEPT ![r] = {q \in Requests : lock[q] # 0 /\ owner[lock[q]] = q}]
    /\ UNCHANGED <<outside, eco, gone, asked, outreq, upresp, reply, downloadLocksMutex, statsVars, method, path, fileName, status, lock, bodyLen,
                   written, served, files, downloadLocks, rows, histVars,
                   purgeVars, adminVars>>

\* lock.Lock(): blocks while another request holds the mutex
Lock(r) ==
    /\ pc[r] = "lock"
    /\ owner[lock[r]] = 0
    /\ owner' = [owner EXCEPT ![lock[r]] = r]
    /\ pc' = [pc EXCEPT ![r] = "recheck"]
    /\ beside' = [beside EXCEPT ![r] = {q \in Requests : lock[q] # 0 /\ owner[lock[q]] = q}]
    /\ UNCHANGED <<outside, eco, gone, asked, outreq, upresp, reply, downloadLocksMutex, statsVars, method, path, fileName, status, lock, bodyLen, written, served,
                   files, downloadLocks, rows, histVars, purgeVars, adminVars>>

\* a handler without the double check
RecheckSkipped(r) ==
    /\ pc[r] = "recheck"
    /\ pc' = [pc EXCEPT ![r] = "miss"]
    /\ UNCHANGED <<eco, frontVars, method, path, fileName, status, lock, bodyLen, written,
                   served, files, downloadLocks, owner, rows, histVars, purgeVars, adminVars>>

\* a double check without the size test
RecheckNoSize(r) ==
    /\ pc[r] = "recheck"
    /\ IF OpenOK(files[localPath(r)])
       THEN /\ pc' = [pc EXCEPT ![r] = "serve"]
            /\ rows' = UpdatePackageAccess(fileName[r], TRUE)
            /\ rec' = [rec EXCEPT ![r] = Append(@, "hit")]
       ELSE /\ pc' = [pc EXCEPT ![r] = "miss"]
            /\ UNCHANGED <<outside, rows, rec>>
    /\ UNCHANGED <<eco, frontVars, method, path, fileName, status, lock, bodyLen, written, served,
                   files, downloadLocks, owner, gets, resp, start, files0, quiet, proxied, purgeVars, adminVars>>

\* the double check after the lock: os.Stat(localPath), then os.Open when the
\* size is positive; a file that cannot be opened is left in place
Recheck(r) ==
    /\ pc[r] = "recheck"
    /\ IF StatLive(files[localPath(r)]) /\ OpenOK(files[localPath(r)])
       THEN /\ pc' = [pc EXCEPT ![r] = "serve"]
            /\ rows' = UpdatePackageAccess(fileName[r], TRUE)
            /\ rec' = [rec EXCEPT ![r] = Append(@, "hit")]
       ELSE /\ pc' = [pc EXCEPT ![r] = "miss"]
            /\ UNCHANGED <<outside, rows, rec>>
    /\ UNCHANGED <<eco, frontVars, method, path, fileName, status, lock, bodyLen, written, served,
                   files, downloadLocks, owner, gets, resp, start, files0, quiet, proxied, purgeVars, adminVars>>

\* a handler that goes to the upstream without recording the miss
MissSkipsRecord(r) ==
    /\ pc[r] = "miss"
    /\ gets' = [gets EXCEPT ![r] = @ + 1]
    /\ pc' = [pc EXCEPT ![r] = "await"]
    /\ UNCHANGED <<eco, frontVars, method, path, fileName, status, lock, bodyLen, written, served,
                   files, downloadLocks, owner, rows, rec, resp, start, files0, quiet, proxied,
                   purgeVars, adminVars>>

\* cache miss: record it and issue the upstream GET
Miss(r) ==
    /\ pc[r] = "miss"
    /\ rows' = UpdatePackageAccess(fileName[r], FALSE)
    /\ rec' = [rec EXCEPT ![r] = Append(@, "miss")]
    /\ gets' = [gets EXCEPT ![r] = @ + 1]
    /\ pc' = [pc EXCEPT ![r] = "await"]
    /\ UNCHANGED <<eco, frontVars, method, path, fileName, status, lock, bodyLen, written, served,
                   files, downloadLocks, owner, resp, start, files0, quiet, proxied, purgeVars, adminVars>>

\* an upstream failure answered by a handler that keeps the mutex
UpstreamFailsKeepsLock(r) ==
    /\ pc[r] = "await"
    /\ resp' = [resp EXCEPT ![r] = "failed"]
    /\ pc' = [pc EXCEPT ![r] = "done"]
    /\ status' = [status EXCEPT ![r] = "502"]
    /\ UNCHANGED <<eco, frontVars, method, path, fileName, lock, bodyLen, written, served, files,
                   downloadLocks, owner, rows, rec, gets, start, files0, quiet, proxied,
                   purgeVars, adminVars>>

\* the upstream GET returns an error or a status other than 200: 502
UpstreamFails(r) ==
    /\ pc[r] = "await"
    /\ resp' = [resp EXCEPT ![r] = "failed"]
    /\ Return(r, "502")
    /\ UNCHANGED <<eco, frontVars, method, path, fileName, lock, bodyLen, written, served, files,
                   downloadLocks, rows, rec, gets, start, files0, quiet, proxied, purgeVars, adminVars>>

\* the upstream GET returns 200 with a body of n bytes
UpstreamOK(r, n) ==
    /\ pc[r] = "await"
    /\ resp' = [resp EXCEPT ![r] = "200"]
    /\ bodyLen' = [bodyLen EXCEPT ![r] = n]
    /\ pc' = [pc EXCEPT ![r] = "create"]
    /\ UNCHANGED <<eco, frontVars, method, path, fileName, status, lock, written, served, files,
                   downloadLocks, owner, rows, rec, gets, start, files0, quiet, proxied, purgeVars, adminVars>>

\* os.Create(tempPath)
Create(r) ==
    /\ pc[r] = "create"
    /\ files' = [files EXCEPT ![tempPath(r)] = File(0, TRUE, r)]
    /\ pc' = [pc EXCEPT ![r] = "copy"]
    /\ UNCHANGED <<eco, frontVars, method, path, fileName, status, lock, bodyLen, written, served,
                   downloadLocks, owner, rows, histVars, purgeVars, adminVars>>

CreateFails(r) ==
    /\ pc[r] = "create"
    /\ Return(r, "500")
    /\ UNCHANGED <<eco, frontVars, method, path, fileName, lock, bodyLen, written, served, files,
                   downloadLocks, rows, histVars, purgeVars, adminVars>>

\* the file r's descriptor writes to is still linked at tempPath
Linked(r) == files[tempPath(r)].exists /\ files[tempPath(r)].src = r

\* io.Copy: one more byte of the body reaches the temp file, or the body
\* ends and outFile is closed
Copy(r) ==
    /\ pc[r] = "copy"
    /\ IF written[r] < bodyLen[r]
       THEN /\ written' = [written EXCEPT ![r] = @ + 1]
            /\ files' = IF Linked(r)
                         THEN [files EXCEPT ![tempPath(r)].size = @ + 1]
                         ELSE files
            /\ pc' = pc
       ELSE /\ pc' = [pc EXCEPT ![r] = "verify"]
            /\ UNCHANGED <<outside, written, files>>
    /\ UNCHANGED <<eco, frontVars, method, path, fileName, status, lock, bodyLen, served,
                   downloadLocks, owner, rows, histVars, purgeVars, adminVars>>

\* a copy error answered without removing the temp file
CopyFailsKeepsTemp(r) ==
    /\ pc[r] = "copy"
    /\ Return(r, "500")
    /\ UNCHANGED <<eco, frontVars, method, path, fileName, lock, bodyLen, written, served,
                   files, downloadLocks, rows, histVars, purgeVars, adminVars>>

\* io.Copy returns an error: os.Remove(tempPath), 500
CopyFails(r) ==
    /\ pc[r] = "copy"
    /\ files' = [files EXCEPT ![tempPath(r)] = NoFile]
    /\ Return(r, "500")
    /\ UNCHANGED <<eco, frontVars, method, path, fileName, lock, bodyLen, written, served,
                   downloadLocks, rows, histVars, purgeVars, adminVars>>

\* a handler whose lock.Unlock() is not deferred: the panic leaves the mutex locked
VerifyPanicKeepsLock(r) ==
    /\ pc[r] = "verify"
    /\ LET f == files[tempPath(r)]
       IN  IF ~f.exists
           THEN /\ files' = files
                /\ pc' = [pc EXCEPT ![r] = "done"]
                /\ status' = [status EXCEPT ![r] = "aborted"]
                /\ owner' = owner
           ELSE IF f.size # written[r]
           THEN /\ files' = [files EXCEPT ![tempPath(r)] = NoFile]
                /\ Return(r, "500")
           ELSE /\ pc' = [pc EXCEPT ![r] = "rename"]
                /\ UNCHANGED <<outside, files, status, owner>>
    /\ UNCHANGED <<eco, frontVars, method, path, fileName, lock, bodyLen, written, served,
                   downloadLocks, rows, histVars, purgeVars, adminVars>>

\* os.Stat(tempPath) and the size comparison.  When Stat fails, stat is nil:
\* the branch removes the temp file, writes the 500 into the response buffer
\* and then log.Printf evaluates stat.Size(), which panics; net/http recovers
\* the panic and closes the connection without flushing the response.
Verify(r) ==
    /\ pc[r] = "verify"
    /\ LET f == files[tempPath(r)]
       IN  IF ~f.exists
           THEN /\ files' = files
                /\ Return(r, "aborted")
           ELSE IF f.size # written[r]
           THEN /\ files' = [files EXCEPT ![tempPath(r)] = NoFile]
                /\ Return(r, "500")
           ELSE /\ pc' = [pc EXCEPT ![r] = "rename"]
                /\ UNCHANGED <<outside, files, status, owner>>
    /\ UNCHANGED <<eco, frontVars, method, path, fileName, lock, bodyLen, written, served,
                   downloadLocks, rows, histVars, purgeVars, adminVars>>

\* os.Rename(tempPath, localPath)
Rename(r) ==
    /\ pc[r] = "rename"
    /\ files[tempPath(r)].exists
    /\ files' = [files EXCEPT ![localPath(r)] = files[tempPath(r)],
                              ![tempPath(r)] = NoFile]
    /\ pc' = [pc EXCEPT ![r] = "serve"]
    /\ UNCHANGED <<eco, frontVars, method, path, fileName, status, lock, bodyLen, written, served,
                   downloadLocks, owner, rows, histVars, purgeVars, adminVars>>

\* os.Rename fails: os.Remove(tempPath), 500
RenameFails(r) ==
    /\ pc[r] = "rename"
    /\ files' = [files EXCEPT ![tempPath(r)] = NoFile]
    /\ Return(r, "500")
    /\ UNCHANGED <<eco, frontVars, method, path, fileName, lock, bodyLen, written, served,
                   downloadLocks, rows, histVars, purgeVars, adminVars>>

\* http.ServeFile(w, r, localPath): 200 with the file as it is now, 404 when
\* it is gone, 403 when it cannot be opened
ServeFile(r) ==
    /\ pc[r] = "serve"
    /\ LET f == files[localPath(r)]
       IN  /\ served' = [served EXCEPT ![r] = IF OpenOK(f) THEN f ELSE NoFile]
           /\ Return(r, IF ~f.exists THEN "404"
                        ELSE IF ~f.readable THEN "403" ELSE "200")
    /\ UNCHANGED <<eco, frontVars, method, path, fileName, lock, bodyLen, written, files,
                   downloadLocks, rows, histVars, purgeVars, adminVars>>

(***************************************************************************)
(* purgeHandler                                                            *)
(***************************************************************************)
\* package lists with names that have ".." or "/" in them
PurgePathLists(e) ==
    { <<p>> : p \in OutsidePaths }
        \cup { << <<".", ".", "/", "*">> >>, << <<".", ".", "/", "o", "/", "*">> >>,
               << <<"x", "/", ".", ".", "/", ".", ".", "/", "s">> >>,
               << <<"/", ".", ".", "/", "s">> >>,
               << <<"*">>, <<".", ".", "/", "*">> >> }
        \cup { <<k, <<".", ".", "/", "s">> >> : k \in Keys(e) }

\* the package lists operators send: one cached file by name, everything in
\* the directory, or one file by name and then everything in the directory
PurgeLists(e) ==
    { <<k>> : k \in Keys(e) } \cup { << <<"*">> >> }
        \cup { <<k, <<"*">> >> : k \in Keys(e) }

\* os.Lstat(p) finds a file: p is a path from cacheDir
Lstat(p) ==
    IF p \in DOMAIN files THEN files[p].exists
    ELSE p \in DOMAIN outside /\ outside[p]

\* filepath.Glob(filepath.Join(cacheDir, pkgName)): without metacharacters
\* the name itself when it exists, otherwise the sorted directory entries
\* that match
Glob(pkgName) ==
    LET pattern == JoinCacheDir(pkgName)
    IN  IF ~hasMeta(pattern)
        THEN IF Lstat(pattern) THEN <<pattern>> ELSE <<>>
        ELSE SortStrings({n \in DOMAIN files \cup DOMAIN outside :
                             Lstat(n) /\ MatchPath(pattern, n)})

\* a delete of every row of the table
DeleteAllPackages(names) == [k \in DOMAIN rows |-> NoRow]

\* DeletePackagesByNames(names): the rows whose name is in the list go
DeletePackagesByNames(names) ==
    [k \in DOMAIN rows |->
        IF \E i \in DOMAIN names : names[i] = k THEN NoRow ELSE rows[k]]

\* where the loop over req.Packages stands once the matches of name i are
\* dealt with: at the Glob of the next name, or past the loop
AfterName(i) == IF i < Len(packages') THEN "glob" ELSE "db"

\* a handler without the method test: the request is served as a POST is
PurgeNotPostProceeds(m, list) ==
    /\ ppc = "idle"
    /\ m # "POST"
    /\ preq' = [method |-> m, body |-> Body(list)]
    /\ packages' = list
    /\ pidx' = 1
    /\ matches' = Glob(list[1])
    /\ ppc' = IF Len(matches') > 0 THEN "remove" ELSE AfterName(1)
    /\ quiet' = \A q \in Requests : pc[q] \in {"idle", "done"}
    /\ UNCHANGED <<eco, frontVars, reqVars, files, downloadLocks, owner, rows, rec, gets,
                   resp, start, files0, proxied, presp, adminVars>>

\* r.Method != http.MethodPost: 405
PurgeNotPost(m, list) ==
    /\ ppc = "idle"
    /\ m # "POST"
    /\ preq' = [method |-> m, body |-> Body(list)]
    /\ presp' = PurgeResponse("405", FALSE, "Method not allowed", <<>>)
    /\ ppc' = "done"
    /\ UNCHANGED <<eco, frontVars, reqVars, files, downloadLocks, owner, rows, histVars,
                   packages, pidx, matches, adminVars>>

\* the body does not decode: 400
PurgeBadBody ==
    /\ ppc = "idle"
    /\ preq' = [method |-> "POST", body |-> BadBody]
    /\ presp' = PurgeResponse("400", FALSE, "Invalid request body", <<>>)
    /\ ppc' = "done"
    /\ UNCHANGED <<eco, frontVars, reqVars, files, downloadLocks, owner, rows, histVars,
                   packages, pidx, matches, adminVars>>

\* len(req.Packages) == 0: success, nothing to do
PurgeEmpty ==
    /\ ppc = "idle"
    /\ preq' = [method |-> "POST", body |-> Body(<<>>)]
    /\ presp' = PurgeResponse("200", TRUE, "No packages to purge", <<>>)
    /\ ppc' = "done"
    /\ UNCHANGED <<eco, frontVars, reqVars, files, downloadLocks, owner, rows, histVars,
                   packages, pidx, matches, adminVars>>

\* the handler decodes a POST with a non-empty list and expands the first name
PurgeStart(list) ==
    /\ ppc = "idle"
    /\ preq' = [method |-> "POST", body |-> Body(list)]
    /\ packages' = list
    /\ pidx' = 1
    /\ matches' = Glob(list[1])
    /\ ppc' = IF Len(matches') > 0 THEN "remove" ELSE AfterName(1)
    /\ quiet' = \A q \in Requests : pc[q] \in {"idle", "done"}
    /\ UNCHANGED <<eco, frontVars, reqVars, files, downloadLocks, owner, rows, rec, gets,
                   resp, start, files0, proxied, presp, adminVars>>

\* the loop over req.Packages: the next name is expanded
PurgeGlob ==
    /\ ppc = "glob"
    /\ pidx' = pidx + 1
    /\ matches' = Glob(packages[pidx + 1])
    /\ packages' = packages
    /\ ppc' = IF Len(matches') > 0 THEN "remove" ELSE AfterName(pidx + 1)
    /\ UNCHANGED <<eco, frontVars, reqVars, files, downloadLocks, owner, rows, histVars,
                   preq, presp, adminVars>>

\* a loop over matches that removes nothing
PurgeRemoveSkips ==
    /\ ppc = "remove"
    /\ matches' = Tail(matches)
    /\ packages' = packages
    /\ ppc' = IF Len(matches') > 0 THEN "remove" ELSE AfterName(pidx)
    /\ UNCHANGED <<eco, frontVars, reqVars, files, downloadLocks, owner, rows, histVars,
                   pidx, preq, presp, adminVars>>

\* the loop over matches: os.Remove of the next match
PurgeRemove ==
    /\ ppc = "remove"
    /\ files' = [n \in DOMAIN files |-> IF n = Head(matches) THEN NoFile ELSE files[n]]
    /\ outside' = [p \in DOMAIN outside |-> outside[p] /\ p # Head(matches)]
    /\ matches' = Tail(matches)
    /\ packages' = packages
    /\ ppc' = IF Len(matches') > 0 THEN "remove" ELSE AfterName(pidx)
    /\ UNCHANGED <<eco, frontVars0, reqVars, downloadLocks, owner, rows, histVars, pidx,
                   preq, presp, adminVars>>

\* the rows are deleted and the response is written: deleted = req.Packages
PurgeDB ==
    /\ ppc = "db"
    /\ rows' = DeletePackagesByNames(packages)
    /\ presp' = PurgeResponse("200", TRUE, "Packages purged successfully", packages)
    /\ ppc' = "done"
    /\ UNCHANGED <<eco, frontVars, reqVars, files, downloadLocks, owner, histVars,
                   packages, pidx, matches, preq, adminVars>>

(***************************************************************************)
(* refreshHandler and performDatabaseRefresh                               *)
(***************************************************************************)
\* 30*time.Minute, in minutes
RefreshWindow == 30

\* the clock is read to ten minutes
TickSteps == {10}

\* the holder of refreshMutex when the job that request h started has it
JobOf(h) == MaxRefresh + h

\* the request arrives; a method other than POST is answered at once
RefreshArrive(h, m) ==
    /\ rpc[h] = "idle"
    /\ h > 1 => rpc[h - 1] # "idle"
    /\ IF m # "POST"
       THEN /\ rresp' = [rresp EXCEPT ![h] =
                            RefreshResponse(FALSE, "Method not allowed", now, 0)]
            /\ rpc' = [rpc EXCEPT ![h] = "done"]
       ELSE /\ rpc' = [rpc EXCEPT ![h] = "lock"]
            /\ rresp' = rresp
    /\ UNCHANGED <<eco, frontVars, reqVars, files, downloadLocks, owner, rows, histVars,
                   purgeVars, refreshMutex, refreshInProgress, lastRefreshTime,
                   now, jpc, began, upsertVars>>

\* refreshMutex.Lock()
RefreshLock(h) ==
    /\ rpc[h] = "lock"
    /\ refreshMutex = 0
    /\ refreshMutex' = h
    /\ rpc' = [rpc EXCEPT ![h] = "check"]
    /\ UNCHANGED <<eco, frontVars, reqVars, files, downloadLocks, owner, rows, histVars,
                   purgeVars, rresp, refreshInProgress, lastRefreshTime, now,
                   jpc, began, upsertVars>>

\* a handler without the 30 minute test
RefreshCheckNoWindow(h) ==
    /\ rpc[h] = "check"
    /\ refreshMutex = h
    /\ refreshMutex' = 0
    /\ IF refreshInProgress
       THEN /\ rresp' = [rresp EXCEPT ![h] =
                            RefreshResponse(FALSE, "in progress", now, 0)]
            /\ rpc' = [rpc EXCEPT ![h] = "done"]
            /\ UNCHANGED <<outside, refreshInProgress, lastRefreshTime, jpc, began>>
       ELSE /\ refreshInProgress' = TRUE
            /\ lastRefreshTime' = now
            /\ jpc' = [jpc EXCEPT ![h] = "truncate"]
            /\ began' = [began EXCEPT ![h] = now]
            /\ rpc' = [rpc EXCEPT ![h] = "respond"]
            /\ rresp' = rresp
    /\ UNCHANGED <<eco, frontVars, reqVars, files, downloadLocks, owner, rows, histVars,
                   purgeVars, now, upsertVars>>

\* a handler without the test of the in-progress flag
RefreshCheckNoFlag(h) ==
    /\ rpc[h] = "check"
    /\ refreshMutex = h
    /\ refreshMutex' = 0
    /\ LET timeSinceLastRefresh == now - lastRefreshTime
       IN  IF timeSinceLastRefresh < RefreshWindow /\ lastRefreshTime # 0
           THEN /\ rresp' = [rresp EXCEPT ![h] =
                                RefreshResponse(FALSE, "wait", now,
                                                RefreshWindow - timeSinceLastRefresh)]
                /\ rpc' = [rpc EXCEPT ![h] = "done"]
                /\ UNCHANGED <<outside, refreshInProgress, lastRefreshTime, jpc, began>>
           ELSE /\ refreshInProgress' = TRUE
                /\ lastRefreshTime' = now
                /\ jpc' = [jpc EXCEPT ![h] = "truncate"]
                /\ began' = [began EXCEPT ![h] = now]
                /\ rpc' = [rpc EXCEPT ![h] = "respond"]
                /\ rresp' = rresp
    /\ UNCHANGED <<eco, frontVars, reqVars, files, downloadLocks, owner, rows, histVars,
                   purgeVars, now, upsertVars>>

\* under refreshMutex: a refresh in progress or one less than 30 minutes ago
\* blocks the request; otherwise the flag and the time are set, the mutex is
\* released and the job is started with the go statement
RefreshCheck(h) ==
    /\ rpc[h] = "check"
    /\ refreshMutex = h
    /\ refreshMutex' = 0
    /\ LET timeSinceLastRefresh == now - lastRefreshTime
       IN  IF refreshInProgress
           THEN /\ rresp' = [rresp EXCEPT ![h] =
                                RefreshResponse(FALSE, "in progress", now, 0)]
                /\ rpc' = [rpc EXCEPT ![h] = "done"]
                /\ UNCHANGED <<outside, refreshInProgress, lastRefreshTime, jpc, began>>
           ELSE IF timeSinceLastRefresh < RefreshWindow /\ lastRefreshTime # 0
           THEN /\ rresp' = [rresp EXCEPT ![h] =
                                RefreshResponse(FALSE, "wait", now,
                                                RefreshWindow - timeSinceLastRefresh)]
                /\ rpc' = [rpc EXCEPT ![h] = "done"]
                /\ UNCHANGED <<outside, refreshInProgress, lastRefreshTime, jpc, began>>
           ELSE /\ refreshInProgress' = TRUE
                /\ lastRefreshTime' = now
                /\ jpc' = [jpc EXCEPT ![h] = "truncate"]
                /\ began' = [began EXCEPT ![h] = now]
                /\ rpc' = [rpc EXCEPT ![h] = "respond"]
                /\ rresp' = rresp
    /\ UNCHANGED <<eco, frontVars, reqVars, files, downloadLocks, owner, rows, histVars,
                   purgeVars, now, upsertVars>>

\* the response of an accepted request
RefreshRespond(h) ==
    /\ rpc[h] = "respond"
    /\ rresp' = [rresp EXCEPT ![h] = RefreshResponse(TRUE, "started", began[h], 0)]
    /\ rpc' = [rpc EXCEPT ![h] = "done"]
    /\ UNCHANGED <<eco, frontVars, reqVars, files, downloadLocks, owner, rows, histVars,
                   purgeVars, refreshMutex, refreshInProgress, lastRefreshTime,
                   now, jpc, began, upsertVars>>

\* the job moves on and leaves the table alone
JobStep(h, from, to) ==
    /\ jpc[h] = from
    /\ jpc' = [jpc EXCEPT ![h] = to]
    /\ UNCHANGED <<eco, frontVars, reqVars, files, downloadLocks, owner, rows, histVars,
                   purgeVars, rpc, rresp, refreshMutex, refreshInProgress,
                   lastRefreshTime, now, began, upsertVars>>

\* TruncatePackagesTable
JobTruncate(h) ==
    /\ jpc[h] = "truncate"
    /\ rows' = [n \in DOMAIN rows |-> NoRow]
    /\ jpc' = [jpc EXCEPT ![h] = "reset"]
    /\ UNCHANGED <<eco, frontVars, reqVars, files, downloadLocks, owner, histVars,
                   purgeVars, rpc, rresp, refreshMutex, refreshInProgress,
                   lastRefreshTime, now, began, upsertVars>>

\* a job without the deferred function: the failed job just ends
JobTruncateFailsNoDefer(h) == JobStep(h, "truncate", "finished")

\* TruncatePackagesTable returns an error: the job returns
JobTruncateFails(h) == JobStep(h, "truncate", "exit")

\* ResetSequence
JobReset(h) == JobStep(h, "reset", "walk")

\* ResetSequence returns an error: the job returns
JobResetFails(h) == JobStep(h, "reset", "exit")

\* a walk that makes rows only for the files it can open
JobWalkSkipsUnreadable(h) ==
    /\ jpc[h] = "walk"
    /\ rows' = [n \in DOMAIN rows |->
                   IF OpenOK(files[n]) THEN Append(rows[n], Row(0, 0)) ELSE rows[n]]
    /\ jpc' = [jpc EXCEPT ![h] = "exit"]
    /\ UNCHANGED <<eco, frontVars, reqVars, files, downloadLocks, owner, histVars,
                   purgeVars, rpc, rresp, refreshMutex, refreshInProgress,
                   lastRefreshTime, now, began, upsertVars>>

\* a walk that unlinks the files it has made rows for
JobWalkUnlinks(h) ==
    /\ jpc[h] = "walk"
    /\ rows' = [n \in DOMAIN rows |->
                   IF files[n].exists THEN Append(rows[n], Row(0, 0)) ELSE rows[n]]
    /\ files' = [n \in DOMAIN files |-> NoFile]
    /\ jpc' = [jpc EXCEPT ![h] = "exit"]
    /\ UNCHANGED <<eco, frontVars, reqVars, downloadLocks, owner, histVars,
                   purgeVars, rpc, rresp, refreshMutex, refreshInProgress,
                   lastRefreshTime, now, began, upsertVars>>

\* filepath.Walk(cacheDir): CreatePackage with zero counters for every file
JobWalk(h) ==
    /\ jpc[h] = "walk"
    /\ rows' = [n \in DOMAIN rows |->
                   IF files[n].exists THEN Append(rows[n], Row(0, 0)) ELSE rows[n]]
    /\ jpc' = [jpc EXCEPT ![h] = "exit"]
    /\ UNCHANGED <<eco, frontVars, reqVars, files, downloadLocks, owner, histVars,
                   purgeVars, rpc, rresp, refreshMutex, refreshInProgress,
                   lastRefreshTime, now, began, upsertVars>>

\* the deferred function: refreshMutex.Lock()
JobLock(h) ==
    /\ jpc[h] = "exit"
    /\ refreshMutex = 0
    /\ refreshMutex' = JobOf(h)
    /\ jpc' = [jpc EXCEPT ![h] = "clear"]
    /\ UNCHANGED <<eco, frontVars, reqVars, files, downloadLocks, owner, rows, histVars,
                   purgeVars, rpc, rresp, refreshInProgress, lastRefreshTime,
                   now, began, upsertVars>>

\* the deferred function: refreshInProgress = false; refreshMutex.Unlock()
JobClear(h) ==
    /\ jpc[h] = "clear"
    /\ refreshMutex = JobOf(h)
    /\ refreshInProgress' = FALSE
    /\ refreshMutex' = 0
    /\ jpc' = [jpc EXCEPT ![h] = "finished"]
    /\ UNCHANGED <<eco, frontVars, reqVars, files, downloadLocks, owner, rows, histVars,
                   purgeVars, rpc, rresp, lastRefreshTime, now, began, upsertVars>>

\* time passes
Tick(d) ==
    /\ now + d <= MaxTime
    /\ now' = now + d
    /\ UNCHANGED <<eco, frontVars, reqVars, files, downloadLocks, owner, rows, histVars,
                   purgeVars, rpc, rresp, refreshMutex, refreshInProgress,
                   lastRefreshTime, jpc, began, upsertVars>>

Job(h) ==
    \/ JobTruncate(h)
    \/ JobTruncateFails(h)
    \/ JobReset(h)
    \/ JobResetFails(h)
    \/ JobWalk(h)
    \/ JobLock(h)
    \/ JobClear(h)

RefreshNext ==
    \/ \E h \in RefreshReqs, m \in Methods : RefreshArrive(h, m)
    \/ \E h \in RefreshReqs : RefreshLock(h)
    \/ \E h \in RefreshReqs : RefreshCheck(h)
    \/ \E h \in RefreshReqs : RefreshRespond(h)
    \/ \E h \in RefreshReqs : Job(h)
    \/ \E d \in TickSteps : Tick(d)

RefreshSpec == Init /\ [][RefreshNext]_vars

\* filepath.Walk cannot read cacheDir: the callback logs the error and returns
\* nil, no row is made and the job returns
JobWalkFails(h) == JobStep(h, "walk", "exit")

\* the refresh handler and its jobs, a walk that fails included
LiveRefreshNext ==
    \/ \E h \in RefreshReqs, m \in Methods : RefreshArrive(h, m)
    \/ \E h \in RefreshReqs : RefreshLock(h)
    \/ \E h \in RefreshReqs : RefreshCheck(h)
    \/ \E h \in RefreshReqs : RefreshRespond(h)
    \/ \E h \in RefreshReqs : Job(h)
    \/ \E h \in RefreshReqs : JobWalkFails(h)
    \/ \E d \in TickSteps : Tick(d)

\* a goroutine that can run does run: the job started by the go statement goes
\* on to its deferred function, and a handler that has refreshMutex gives it
\* back
LiveRefreshSpec ==
    /\ Init
    /\ [][LiveRefreshNext]_vars
    /\ \A h \in RefreshReqs : WF_vars(Job(h) \/ JobWalkFails(h))
    /\ \A h \in RefreshReqs : WF_vars(RefreshCheck(h))

(***************************************************************************)
(* record_package_access, statement by statement.  The schema of the       *)
(* packages table is not among the sources: with a unique index on name    *)
(* an INSERT of a name that is there fails, without one it adds a row.     *)
(***************************************************************************)
\* the UPDATE of call c; when no row was found the INSERT follows
CallUpdate(c, name, hit) ==
    /\ cpc[c] = "idle"
    /\ c > 1 => cpc[c - 1] # "idle"
    /\ cname' = [cname EXCEPT ![c] = name]
    /\ chit' = [chit EXCEPT ![c] = hit]
    /\ IF Found(name)
       THEN /\ rows' = UpdateRows(name, hit)
            /\ cpc' = [cpc EXCEPT ![c] = "done"]
       ELSE /\ rows' = rows
            /\ cpc' = [cpc EXCEPT ![c] = "insert"]
    /\ UNCHANGED <<eco, frontVars, reqVars, files, downloadLocks, owner, histVars,
                   purgeVars, refreshVars>>

\* the INSERT of call c
CallInsert(c) ==
    /\ cpc[c] = "insert"
    /\ rows' = InsertRow(cname[c], chit[c])
    /\ cpc' = [cpc EXCEPT ![c] = "done"]
    /\ UNCHANGED <<eco, frontVars, reqVars, files, downloadLocks, owner, histVars,
                   purgeVars, refreshVars, cname, chit>>

\* the INSERT of call c violates a unique index on name: the call fails, and
\* the handlers ignore the error UpdatePackageAccess returns
CallInsertFails(c) ==
    /\ cpc[c] = "insert"
    /\ Found(cname[c])
    /\ cpc' = [cpc EXCEPT ![c] = "failed"]
    /\ UNCHANGED <<eco, frontVars, reqVars, files, downloadLocks, owner, rows, histVars,
                   purgeVars, refreshVars, cname, chit>>

UpsertNext ==
    \/ \E c \in Calls, k \in Keys(eco), hit \in BOOLEAN : CallUpdate(c, k, hit)
    \/ \E c \in Calls : CallInsert(c)
    \/ \E c \in Calls : CallInsertFails(c)

UpsertSpec == Init /\ [][UpsertNext]_vars

\* the client of r closes its connection while r downloads.  net/http cancels
\* r.Context(); the handler reads neither the context nor the result of its
\* writes to w, and http.Get(Upstream + r.URL.Path) carries no context, so the
\* goroutine of r goes on as before
Disconnect(r) ==
    /\ pc[r] \in {"await", "create", "copy"}
    /\ ~gone[r]
    /\ gone' = [gone EXCEPT ![r] = TRUE]
    /\ UNCHANGED <<outside, eco, reqVars, files, downloadLocks, owner, rows, histVars,
                   purgeVars, adminVars, asked, outreq, upresp, reply,
                   downloadLocksMutex, beside, statsVars>>

(***************************************************************************)
(* The reverse proxy of each server: Director, ModifyResponse and the      *)
(* response as net/http sends it                                           *)
(***************************************************************************)
PyPICDN ==
    <<"h","t","t","p","s",":","/","/","f","i","l","e","s",".","p","y","t",
      "h","o","n","h","o","s","t","e","d",".","o","r","g">>

\* config.NPMConfig.Upstream
NPMUpstream ==
    <<"h","t","t","p","s",":","/","/","r","e","g","i","s","t","r","y",".",
      "n","p","m","j","s",".","o","r","g">>

\* "http://" + config.Server.Host + ":" + config.Server.Port
ProxyAddr ==
    <<"h","t","t","p",":","/","/","0",".","0",".","0",".","0",":","8","0",
      "8","0">>

\* target.Host of each server
TargetHost(e) ==
    CASE e = "npm"  -> <<"r","e","g","i","s","t","r","y",".","n","p","m","j","s",".","o","r","g">>
      [] e = "gem"  -> <<"r","u","b","y","g","e","m","s",".","o","r","g">>
      [] e = "pypi" -> <<"p","y","p","i",".","o","r","g">>

\* strings.Contains, bytes.Contains
Contains(s, sub) == IndexFrom(s, sub, 1) # 0

Reverse(s) == [i \in 1..Len(s) |-> s[Len(s) + 1 - i]]

\* a compressed stream stands as a marker and the text backwards: an encoding
\* that can be undone and in which the text does not appear
Compress(ce, text) == <<ce>> \o Reverse(text)

\* gzip.NewReader(resp.Body) and io.ReadAll
Gunzip(b) == Reverse(Tail(b))

\* the body of a response as the upstream sends it under a Content-Encoding
Encoded(ce, text) == IF ce = "" THEN text ELSE Compress(ce, text)

\* the Host header the clients address the proxy by
ClientHosts == { <<"h","1">>, <<"h","2",":","8","0">> }

\* paths that reach the reverse proxy, by method
ProxyPaths(e) ==
    CASE e = "npm"  -> { <<"/","a">>, <<"/","a",".","t","g","z">> }
      [] e = "gem"  -> { <<"/","a">> }
      [] e = "pypi" -> { <<"/","s","i","m","p","l","e","/","a","/">>, <<"/","p","y","p","i","/","a","/","j","s","o","n">> }

ContentTypes ==
    { <<"t","e","x","t","/","h","t","m","l">>,
      <<"a","p","p","l","i","c","a","t","i","o","n","/","j","s","o","n">>,
      <<"a","p","p","l","i","c","a","t","i","o","n","/","v","n","d",".","p","y","p","i",".","s","i","m","p","l","e",".","v","1","+","j","s","o","n">>,
      <<"t","e","x","t","/","p","l","a","i","n">> }

ContentEncodings == {"", "gzip", "br"}

\* the origin whose URLs the bodies of each upstream carry
Origin(e) == IF e = "npm" THEN NPMUpstream ELSE PyPICDN

\* the texts the upstream answers with: without a URL, with one URL of the
\* origin, with two, and with the host of the origin under another scheme
Texts(e) ==
    { <<>>,
      <<"a","b">>,
      Origin(e) \o <<"/","a">>,
      <<"x"," ">> \o Origin(e) \o <<"/","a"," ">> \o Origin(e) \o <<"/","b">>,
      <<"f","t","p">> \o SubSeq(Origin(e), 6, Len(Origin(e))) }

\* the responses of the upstream: with a Content-Length header or chunked.
\* http.Transport moves Transfer-Encoding out of resp.Header
UpstreamResponses(e) ==
    { Response(ct, ce, IF chunked THEN -1 ELSE Len(Encoded(ce, t)),
               Encoded(ce, t), TRUE) :
        ct \in ContentTypes, ce \in ContentEncodings,
        chunked \in BOOLEAN, t \in Texts(e) }

\* a Director that stores nothing before the Host is overwritten
PyPIDirectorForgetsHost(req) == [req EXCEPT !.host = TargetHost("pypi")]

\* cmd/python_cache/main.go proxy.Director: the Host of the client is put
\* into X-Original-Host, then the Host is overwritten with target.Host
PyPIDirector(req) ==
    LET urlHost == <<>>    \* req.URL.Host of a request in origin form
        originalHost == IF req.host = <<>> THEN urlHost ELSE req.host
    IN  [req EXCEPT !.xOriginalHost = originalHost, !.host = TargetHost("pypi")]

\* cmd/npm_cache/main.go and the RubyGems server: proxy.Director
HostDirector(e, req) == [req EXCEPT !.host = TargetHost(e)]

Director(e, req) == IF e = "pypi" THEN PyPIDirector(req) ELSE HostDirector(e, req)

\* cmd/python_cache/main.go proxy.ModifyResponse
PyPIModifyResponse(req, res) ==
    IF ~Contains(req.path, <<"/","s","i","m","p","l","e","/">>) THEN res
    ELSE IF ~Contains(res.contentType, <<"j","s","o","n">>)
            /\ ~Contains(res.contentType, <<"h","t","m","l">>) THEN res
    ELSE LET originalHost == IF req.xOriginalHost = <<>> THEN req.host
                             ELSE req.xOriginalHost
             gzipped == res.contentEncoding = "gzip"
             body == IF gzipped THEN Gunzip(res.body) ELSE res.body
             proxyURL == <<"h","t","t","p",":","/","/">> \o originalHost
             modifiedBody == ReplaceAll(body, PyPICDN, proxyURL)
         IN  Response(res.contentType,
                      IF gzipped THEN "" ELSE res.contentEncoding,
                      Len(modifiedBody), modifiedBody, TRUE)

\* a ModifyResponse that sets the Content-Length header as well
NPMModifyResponseSetsHeader(req, res) ==
    IF ~HasSuffix(req.path, <<".","t","g","z">>)
       /\ Contains(res.contentType, <<"a","p","p","l","i","c","a","t","i","o","n","/","j","s","o","n">>)
    THEN LET newBody == ReplaceAll(res.body, NPMUpstream, ProxyAddr)
         IN  [res EXCEPT !.body = newBody, !.contentLength = Len(newBody)]
    ELSE res

\* cmd/npm_cache/main.go proxy.ModifyResponse: the body is replaced and
\* resp.ContentLength is set; resp.Header keeps the Content-Length of the
\* upstream, and the header is what ReverseProxy copies to the client
NPMModifyResponse(req, res) ==
    IF ~HasSuffix(req.path, <<".","t","g","z">>)
       /\ Contains(res.contentType, <<"a","p","p","l","i","c","a","t","i","o","n","/","j","s","o","n">>)
    THEN LET newBody == ReplaceAll(res.body, NPMUpstream, ProxyAddr)
         IN  [res EXCEPT !.body = newBody]
    ELSE res

ModifyResponse(e, req, res) ==
    CASE e = "npm"  -> NPMModifyResponse(req, res)
      [] e = "gem"  -> res
      [] e = "pypi" -> PyPIModifyResponse(req, res)

\* net/http writes the response of the handler: no more bytes than the
\* Content-Length header says, and a body shorter than that is cut off by
\* the close of the connection
Deliver(res) ==
    LET n == res.contentLength
    IN  IF n < 0 THEN res
        ELSE [res EXCEPT
                 !.body = IF Len(@) > n THEN SubSeq(@, 1, n) ELSE @,
                 !.complete = (Len(res.body) = n)]

\* proxy.ServeHTTP(w, r) for a request the root handler does not intercept
Proxy(m, h, p, up) ==
    /\ ~Intercepts(eco, m, p)
    /\ proxied' = [method |-> m, path |-> p]
    /\ asked' = Ask(h, p, <<>>)
    /\ outreq' = Director(eco, asked')
    /\ upresp' = up
    /\ reply' = Deliver(ModifyResponse(eco, outreq', up))
    /\ UNCHANGED <<outside, eco, reqVars, files, downloadLocks, owner, rows, rec, gets,
                   resp, start, files0, quiet, purgeVars, adminVars, gone,
                   downloadLocksMutex, beside, statsVars>>

\* one exchange is followed: the reverse proxy keeps nothing from one request
\* to the next
ProxyNext ==
    /\ asked = NoAsk
    /\ \E m \in Methods, h \in ClientHosts, p \in ProxyPaths(eco),
          up \in UpstreamResponses(eco) : Proxy(m, h, p, up)

ProxySpec == Init /\ [][ProxyNext]_vars

\* the steps of the download handler after it is entered
Download(r) ==
    \/ Stat1(r)
    \/ Open1(r)
    \/ Remove1(r)
    \/ GetLock(r)
    \/ Lock(r)
    \/ Recheck(r)
    \/ Miss(r)
    \/ UpstreamFails(r)
    \/ \E n \in 0..MaxBody : UpstreamOK(r, n)
    \/ Create(r)
    \/ CreateFails(r)
    \/ Copy(r)
    \/ CopyFails(r)
    \/ Verify(r)
    \/ Rename(r)
    \/ RenameFails(r)
    \/ ServeFile(r)

Purge ==
    \/ ppc = "idle" /\ \E k \in Keys(eco) : PurgeNotPost("GET", <<k>>)
    \/ PurgeBadBody
    \/ PurgeEmpty
    \/ ppc = "idle" /\ \E list \in PurgeLists(eco) : PurgeStart(list)
    \/ PurgeGlob
    \/ PurgeRemove
    \/ PurgeDB

\* one download request and one purge request whose names are paths
PurgePathNext ==
    \/ pc[1] = "idle" /\ \E p \in ArtifactPaths(eco) : Intercept(1, "GET", p)
    \/ Download(1)
    \/ ppc = "idle" /\ \E list \in PurgePathLists(eco) : PurgeStart(list)
    \/ PurgeGlob
    \/ PurgeRemove
    \/ PurgeDB

PurgePathSpec == Init /\ [][PurgePathNext]_vars

\* download requests and one purge request
Next ==
    \/ \E r \in 1..MaxReq :
          pc[r] = "idle" /\ \E p \in ArtifactPaths(eco) : Intercept(r, "GET", p)
    \/ \E r \in Requests : Download(r)
    \/ Purge

Spec == Init /\ [][Next]_vars

\* download requests alone
FlightNext ==
    \/ \E r \in 1..MaxFlight :
          pc[r] = "idle" /\ \E p \in ArtifactPaths(eco) : Intercept(r, "GET", p)
    \/ \E r \in Requests : Download(r)

FlightSpec == Init /\ [][FlightNext]_vars

\* download requests whose clients may go away
CancelNext ==
    \/ \E r \in 1..MaxReq :
          pc[r] = "idle" /\ \E p \in ArtifactPaths(eco) : Intercept(r, "GET", p)
    \/ \E r \in Requests : Download(r)
    \/ \E r \in Requests : Disconnect(r)

CancelSpec == Init /\ [][CancelNext]_vars

\* ---- the lock registry, statement by statement ----

\* a handler that reads the registry without taking downloadLocksMutex
RegLockSkipped(r) ==
    /\ pc[r] = "getlock"
    /\ pc' = [pc EXCEPT ![r] = "lookup"]
    /\ UNCHANGED <<outside, eco, gone, asked, outreq, upresp, reply, beside, statsVars, method, path, fileName,
                   status, bodyLen, written, served, files, rows, histVars, purgeVars,
                   adminVars, lock, downloadLocks, owner, downloadLocksMutex>>

\* downloadLocksMutex.Lock()
RegLock(r) ==
    /\ pc[r] = "getlock"
    /\ downloadLocksMutex = 0
    /\ downloadLocksMutex' = r
    /\ pc' = [pc EXCEPT ![r] = "lookup"]
    /\ UNCHANGED <<outside, eco, gone, asked, outreq, upresp, reply, beside, statsVars, method, path, fileName,
                   status, bodyLen, written, served, files, rows, histVars, purgeVars,
                   adminVars, lock, downloadLocks, owner>>

\* lock, exists := downloadLocks[fileName]
RegLookup(r) ==
    /\ pc[r] = "lookup"
    /\ IF downloadLocks[fileName[r]] # 0
       THEN /\ lock' = [lock EXCEPT ![r] = downloadLocks[fileName[r]]]
            /\ pc' = [pc EXCEPT ![r] = "regunlock"]
       ELSE /\ pc' = [pc EXCEPT ![r] = "reginsert"]
            /\ UNCHANGED lock
    /\ UNCHANGED <<outside, eco, gone, asked, outreq, upresp, reply, beside, statsVars, method, path, fileName,
                   status, bodyLen, written, served, files, rows, histVars, purgeVars,
                   adminVars, downloadLocks, owner, downloadLocksMutex>>

\* a registry that hands the first mutex it made to every key
RegInsertShared(r) ==
    /\ pc[r] = "reginsert"
    /\ IF Len(owner) > 0
       THEN /\ downloadLocks' = [downloadLocks EXCEPT ![fileName[r]] = 1]
            /\ lock' = [lock EXCEPT ![r] = 1]
            /\ UNCHANGED owner
       ELSE /\ owner' = Append(owner, 0)
            /\ downloadLocks' = [downloadLocks EXCEPT ![fileName[r]] = Len(owner) + 1]
            /\ lock' = [lock EXCEPT ![r] = Len(owner) + 1]
    /\ pc' = [pc EXCEPT ![r] = "regunlock"]
    /\ UNCHANGED <<outside, eco, gone, asked, outreq, upresp, reply, beside, statsVars, method, path, fileName,
                   status, bodyLen, written, served, files, rows, histVars, purgeVars,
                   adminVars, downloadLocksMutex>>

\* lock = &sync.Mutex{}; downloadLocks[fileName] = lock
RegInsert(r) ==
    /\ pc[r] = "reginsert"
    /\ owner' = Append(owner, 0)
    /\ downloadLocks' = [downloadLocks EXCEPT ![fileName[r]] = Len(owner) + 1]
    /\ lock' = [lock EXCEPT ![r] = Len(owner) + 1]
    /\ pc' = [pc EXCEPT ![r] = "regunlock"]
    /\ UNCHANGED <<outside, eco, gone, asked, outreq, upresp, reply, beside, statsVars, method, path, fileName,
                   status, bodyLen, written, served, files, rows, histVars, purgeVars,
                   adminVars, downloadLocksMutex>>

\* downloadLocksMutex.Unlock()
RegUnlock(r) ==
    /\ pc[r] = "regunlock"
    /\ downloadLocksMutex' = 0
    /\ pc' = [pc EXCEPT ![r] = "lock"]
    /\ UNCHANGED <<outside, eco, gone, asked, outreq, upresp, reply, beside, statsVars, method, path, fileName,
                   status, bodyLen, written, served, files, rows, histVars, purgeVars,
                   adminVars, lock, downloadLocks, owner>>

\* download requests for two artifacts, the registry taken statement by statement
RegistryNext ==
    \/ \E r \in 1..MaxReq :
          pc[r] = "idle" /\ \E p \in PairPaths(eco) : Intercept(r, "GET", p)
    \/ \E r \in Requests :
          \/ RegLock(r)
          \/ RegLookup(r)
          \/ RegInsert(r)
          \/ RegUnlock(r)
    \/ \E r \in Requests :
          \/ Stat1(r)
          \/ Open1(r)
          \/ Remove1(r)
          \/ Lock(r)
          \/ Recheck(r)
          \/ Miss(r)
          \/ UpstreamFails(r)
          \/ \E n \in 0..MaxBody : UpstreamOK(r, n)
          \/ Create(r)
          \/ CreateFails(r)
          \/ Copy(r)
          \/ CopyFails(r)
          \/ Verify(r)
          \/ Rename(r)
          \/ RenameFails(r)
          \/ ServeFile(r)

RegistrySpec == Init /\ [][RegistryNext]_vars

\* ---- UpdatePackageAccess returns an error ----

\* fast path: the call for the hit fails; its result is not looked at
Open1StoreFails(r) ==
    /\ pc[r] = "open1"
    /\ OpenOK(files[localPath(r)])
    /\ rec' = [rec EXCEPT ![r] = Append(@, "hit")]
    /\ pc' = [pc EXCEPT ![r] = "serve"]
    /\ UNCHANGED <<eco, frontVars, method, path, fileName, status, lock, bodyLen, written, served,
                   files, downloadLocks, owner, rows, resp, start, files0, quiet, proxied,
                   purgeVars, adminVars, gets>>

\* after the lock: the call for the hit fails
RecheckStoreFails(r) ==
    /\ pc[r] = "recheck"
    /\ StatLive(files[localPath(r)]) /\ OpenOK(files[localPath(r)])
    /\ rec' = [rec EXCEPT ![r] = Append(@, "hit")]
    /\ pc' = [pc EXCEPT ![r] = "serve"]
    /\ UNCHANGED <<eco, frontVars, method, path, fileName, status, lock, bodyLen, written, served,
                   files, downloadLocks, owner, rows, resp, start, files0, quiet, proxied,
                   purgeVars, adminVars, gets>>

\* a handler that answers 500 when the call for the miss fails
MissStoreFailsReturns(r) ==
    /\ pc[r] = "miss"
    /\ rec' = [rec EXCEPT ![r] = Append(@, "miss")]
    /\ Return(r, "500")
    /\ UNCHANGED <<eco, frontVars, method, path, fileName, lock, bodyLen, written, served,
                   files, downloadLocks, rows, resp, start, files0, quiet, proxied,
                   purgeVars, adminVars, gets>>

\* the call for the miss fails; http.Get follows all the same
MissStoreFails(r) ==
    /\ pc[r] = "miss"
    /\ rec' = [rec EXCEPT ![r] = Append(@, "miss")]
    /\ gets' = [gets EXCEPT ![r] = @ + 1]
    /\ pc' = [pc EXCEPT ![r] = "await"]
    /\ UNCHANGED <<eco, frontVars, method, path, fileName, status, lock, bodyLen, written, served,
                   files, downloadLocks, owner, rows, resp, start, files0, quiet, proxied,
                   purgeVars, adminVars>>

\* download requests whose stats calls may fail
StoreNext ==
    \/ \E r \in 1..MaxReq :
          pc[r] = "idle" /\ \E p \in ArtifactPaths(eco) : Intercept(r, "GET", p)
    \/ \E r \in Requests : Download(r)
    \/ \E r \in Requests : Open1StoreFails(r)
    \/ \E r \in Requests : RecheckStoreFails(r)
    \/ \E r \in Requests : MissStoreFails(r)

StoreSpec == Init /\ [][StoreNext]_vars

\* ---- download requests under fair scheduling ----

\* the steps of the handler that wait for nothing but the scheduler and the disk
LocalStep(r) ==
    \/ Stat1(r)
    \/ Open1(r)
    \/ Remove1(r)
    \/ GetLock(r)
    \/ Recheck(r)
    \/ Miss(r)
    \/ Create(r)
    \/ CreateFails(r)
    \/ Verify(r)
    \/ Rename(r)
    \/ RenameFails(r)
    \/ ServeFile(r)

\* the steps that wait for the upstream: the return of http.Get, and io.Copy
\* of resp.Body
UpstreamStep(r) ==
    \/ UpstreamFails(r)
    \/ \E n \in 0..MaxBody : UpstreamOK(r, n)
    \/ Copy(r)
    \/ CopyFails(r)

LiveNext ==
    \/ \E r \in 1..MaxReq :
          pc[r] = "idle" /\ \E p \in ArtifactPaths(eco) : Intercept(r, "GET", p)
    \/ \E r \in Requests : Download(r)

\* every goroutine is scheduled and a waiter gets the mutex that is unlocked
\* again and again; http.Get has no timeout, so the upstream may keep silent
LiveSpec ==
    /\ Init /\ [][LiveNext]_vars
    /\ \A r \in Requests : WF_vars(LocalStep(r)) /\ SF_vars(Lock(r))

\* the same, and every upstream call returns and every body ends
LiveUpSpec ==
    /\ LiveSpec
    /\ \A r \in Requests : WF_vars(UpstreamStep(r))

\* download requests and one purge request, every goroutine scheduled, every
\* upstream call returning; the purge request may come or not
LivePurgeNext ==
    \/ LiveNext
    \/ ppc = "idle" /\ PurgeStart(<< <<"*">>, <<"*">> >>)
    \/ PurgeGlob
    \/ PurgeRemove
    \/ PurgeDB

LivePurgeSpec ==
    /\ Init /\ [][LivePurgeNext]_vars
    /\ \A r \in Requests :
          WF_vars(LocalStep(r)) /\ SF_vars(Lock(r)) /\ WF_vars(UpstreamStep(r))

\* ---- the stats sampler and the dashboard ----

\* the ticker of InitStats fires: updateStats begins
SampleTick ==
    /\ spc = "sleep"
    /\ runs < MaxRuns
    /\ runs' = runs + 1
    /\ sample' = NoSample
    /\ spc' = "readdir"
    /\ UNCHANGED <<outside, eco, reqVars, files, downloadLocks, owner, rows, histVars, purgeVars,
                   adminVars, gone, asked, outreq, upresp, reply, downloadLocksMutex,
                   beside, GlobalStats, dpc, dash, muVars>>

\* filepath.Walk reads the names in the cache directory, sorted
SampleReaddir ==
    /\ spc = "readdir"
    /\ sample' = [sample EXCEPT !.names = SortStrings({n \in DOMAIN files : files[n].exists})]
    /\ spc' = "lstat"
    /\ UNCHANGED <<outside, eco, reqVars, files, downloadLocks, owner, rows, histVars, purgeVars,
                   adminVars, gone, asked, outreq, upresp, reply, downloadLocksMutex,
                   beside, runs, GlobalStats, dpc, dash, muVars>>

\* filepath.Walk visits the next name: a file that is still there is counted,
\* one that is gone meanwhile reaches the callback with an error and is not
SampleLstat ==
    /\ spc = "lstat"
    /\ sample.names # <<>>
    /\ LET n == Head(sample.names)
       IN  sample' = [sample EXCEPT
                         !.names = Tail(@),
                         !.fileCount = IF files[n].exists THEN @ + 1 ELSE @,
                         !.totalSize = IF files[n].exists THEN @ + files[n].size ELSE @]
    /\ UNCHANGED <<outside, eco, reqVars, files, downloadLocks, owner, rows, histVars, purgeVars,
                   adminVars, gone, asked, outreq, upresp, reply, downloadLocksMutex,
                   beside, spc, runs, GlobalStats, dpc, dash, muVars>>

\* getTotalPackagesServed after the walk
SampleServed ==
    /\ spc = "lstat"
    /\ sample.names = <<>>
    /\ sample' = [sample EXCEPT !.packagesServed = TotalPackagesServed(rows)]
    /\ spc' = "store"
    /\ UNCHANGED <<outside, eco, reqVars, files, downloadLocks, owner, rows, histVars, purgeVars,
                   adminVars, gone, asked, outreq, upresp, reply, downloadLocksMutex,
                   beside, runs, GlobalStats, dpc, dash, muVars>>

\* GetTotalPackagesServed returns an error: getTotalPackagesServed returns 0
SampleServedFails ==
    /\ spc = "lstat"
    /\ sample.names = <<>>
    /\ sample' = [sample EXCEPT !.packagesServed = 0]
    /\ spc' = "store"
    /\ UNCHANGED <<outside, eco, reqVars, files, downloadLocks, owner, rows, histVars, purgeVars,
                   adminVars, gone, asked, outreq, upresp, reply, downloadLocksMutex,
                   beside, runs, GlobalStats, dpc, dash, muVars>>

\* s.mu.Lock(); the four fields are assigned; s.mu.Unlock()
SampleStore ==
    /\ spc = "store"
    /\ GlobalStats' = Stats(sample.fileCount, sample.totalSize, sample.packagesServed, now)
    /\ wrote' = [f \in StatFields |-> runs]
    /\ spc' = "sleep"
    /\ UNCHANGED <<outside, eco, reqVars, files, downloadLocks, owner, rows, histVars, purgeVars,
                   adminVars, gone, asked, outreq, upresp, reply, downloadLocksMutex,
                   beside, runs, sample, dpc, dash, mu, widx, ridx, seen>>

\* dashboardHandler lists the packages
DashList ==
    /\ dpc = "idle"
    /\ dash' = [dash EXCEPT !.Packages =
                    UNION { { <<n, rows[n][i].hit, rows[n][i].miss>> : i \in DOMAIN rows[n] } :
                              n \in DOMAIN rows }]
    /\ dpc' = "stats"
    /\ UNCHANGED <<outside, eco, reqVars, files, downloadLocks, owner, rows, histVars, purgeVars,
                   adminVars, gone, asked, outreq, upresp, reply, downloadLocksMutex,
                   beside, spc, runs, sample, GlobalStats, muVars>>

\* the listing returns an error: 500 "Failed to load packages"
DashListFails ==
    /\ dpc = "idle"
    /\ dash' = [dash EXCEPT !.code = "500"]
    /\ dpc' = "done"
    /\ UNCHANGED <<outside, eco, reqVars, files, downloadLocks, owner, rows, histVars, purgeVars,
                   adminVars, gone, asked, outreq, upresp, reply, downloadLocksMutex,
                   beside, spc, runs, sample, GlobalStats, muVars>>

\* stats.GlobalStats.Get() under the read lock, and the page is written
DashStats ==
    /\ dpc = "stats"
    /\ dash' = [dash EXCEPT !.stats = GlobalStats, !.code = "200"]
    /\ seen' = wrote
    /\ dpc' = "done"
    /\ UNCHANGED <<outside, eco, reqVars, files, downloadLocks, owner, rows, histVars, purgeVars,
                   adminVars, gone, asked, outreq, upresp, reply, downloadLocksMutex,
                   beside, spc, runs, sample, GlobalStats, mu, widx, ridx, wrote>>

\* none of the refresh request, the sampler's tick, the dashboard request and
\* the proxied request has come yet
\* ---- GlobalStats under s.mu, field by field ----

\* fileCount, totalSize, packagesServed and time.Now(), as updateStats assigns them
Assigned(i) == <<sample.fileCount, sample.totalSize, sample.packagesServed, now>>[i]

\* an updateStats that assigns the fields without s.mu
StoreLockSkipped ==
    /\ spc = "store"
    /\ spc' = "assign"
    /\ widx' = 1
    /\ UNCHANGED <<outside, eco, reqVars, files, downloadLocks, owner, rows, histVars, purgeVars,
                   adminVars, gone, asked, outreq, upresp, reply, downloadLocksMutex,
                   beside, runs, sample, GlobalStats, dpc, dash, mu, ridx, wrote, seen>>

\* s.mu.Lock()
StoreLock ==
    /\ spc = "store"
    /\ ~mu.w /\ mu.r = 0
    /\ mu' = [mu EXCEPT !.w = TRUE]
    /\ spc' = "assign"
    /\ widx' = 1
    /\ UNCHANGED <<outside, eco, reqVars, files, downloadLocks, owner, rows, histVars, purgeVars,
                   adminVars, gone, asked, outreq, upresp, reply, downloadLocksMutex,
                   beside, runs, sample, GlobalStats, dpc, dash, ridx, wrote, seen>>

\* s.FileCount = fileCount, ..., s.LastUpdated = time.Now(): one assignment
StoreAssign ==
    /\ spc = "assign"
    /\ widx \in DOMAIN StatFieldList
    /\ GlobalStats' = [GlobalStats EXCEPT ![StatFieldList[widx]] = Assigned(widx)]
    /\ wrote' = [wrote EXCEPT ![StatFieldList[widx]] = runs]
    /\ widx' = widx + 1
    /\ UNCHANGED <<outside, eco, reqVars, files, downloadLocks, owner, rows, histVars, purgeVars,
                   adminVars, gone, asked, outreq, upresp, reply, downloadLocksMutex,
                   beside, spc, runs, sample, dpc, dash, mu, ridx, seen>>

\* s.mu.Unlock()
StoreUnlock ==
    /\ spc = "assign"
    /\ widx = Len(StatFieldList) + 1
    /\ mu' = [mu EXCEPT !.w = FALSE]
    /\ widx' = 0
    /\ spc' = "sleep"
    /\ UNCHANGED <<outside, eco, reqVars, files, downloadLocks, owner, rows, histVars, purgeVars,
                   adminVars, gone, asked, outreq, upresp, reply, downloadLocksMutex,
                   beside, runs, sample, GlobalStats, dpc, dash, ridx, wrote, seen>>

\* Get: s.mu.RLock()
GetRLock ==
    /\ dpc = "stats"
    /\ ~mu.w
    /\ mu' = [mu EXCEPT !.r = @ + 1]
    /\ dpc' = "get"
    /\ ridx' = 1
    /\ UNCHANGED <<outside, eco, reqVars, files, downloadLocks, owner, rows, histVars, purgeVars,
                   adminVars, gone, asked, outreq, upresp, reply, downloadLocksMutex,
                   beside, spc, runs, sample, GlobalStats, dash, widx, wrote, seen>>

\* Get: return s.FileCount, s.TotalSizeBytes, s.PackagesServed, s.LastUpdated: one read
GetRead ==
    /\ dpc = "get"
    /\ ridx \in DOMAIN StatFieldList
    /\ dash' = [dash EXCEPT !.stats[StatFieldList[ridx]] = GlobalStats[StatFieldList[ridx]]]
    /\ seen' = [seen EXCEPT ![StatFieldList[ridx]] = wrote[StatFieldList[ridx]]]
    /\ ridx' = ridx + 1
    /\ UNCHANGED <<outside, eco, reqVars, files, downloadLocks, owner, rows, histVars, purgeVars,
                   adminVars, gone, asked, outreq, upresp, reply, downloadLocksMutex,
                   beside, spc, runs, sample, GlobalStats, dpc, mu, widx, wrote>>

\* Get: the deferred s.mu.RUnlock(), and the page is written
GetRUnlock ==
    /\ dpc = "get"
    /\ ridx = Len(StatFieldList) + 1
    /\ mu' = [mu EXCEPT !.r = @ - 1]
    /\ dash' = [dash EXCEPT !.code = "200"]
    /\ ridx' = 0
    /\ dpc' = "done"
    /\ UNCHANGED <<outside, eco, reqVars, files, downloadLocks, owner, rows, histVars, purgeVars,
                   adminVars, gone, asked, outreq, upresp, reply, downloadLocksMutex,
                   beside, spc, runs, sample, GlobalStats, widx, wrote, seen>>

\* one download request, the stats sampler and one dashboard request
StatsNext ==
    \/ pc[1] = "idle" /\ \E p \in ArtifactPaths(eco) : Intercept(1, "GET", p)
    \/ Download(1)
    \/ SampleTick
    \/ SampleReaddir
    \/ SampleLstat
    \/ SampleServed
    \/ SampleServedFails
    \/ StoreLock
    \/ StoreAssign
    \/ StoreUnlock
    \/ DashList
    \/ DashListFails
    \/ GetRLock
    \/ GetRead
    \/ GetRUnlock

StatsSpec == Init /\ [][StatsNext]_vars

NoneYet == rpc[1] = "idle" /\ runs = 0 /\ dpc = "idle" /\ asked = NoAsk

\* one download request and one purge request, and beside them one of: a
\* refresh request and its job, a tick of the stats sampler, a dashboard
\* request, a proxied request
FrameNext ==
    \/ pc[1] = "idle" /\ \E p \in ArtifactPaths(eco) : Intercept(1, "GET", p)
    \/ Download(1)
    \/ Purge
    \/ NoneYet /\ RefreshArrive(1, "POST")
    \/ RefreshLock(1)
    \/ RefreshCheck(1)
    \/ RefreshRespond(1)
    \/ Job(1)
    \/ NoneYet /\ SampleTick
    \/ SampleReaddir
    \/ SampleLstat
    \/ SampleServed
    \/ SampleServedFails
    \/ SampleStore
    \/ NoneYet /\ DashList
    \/ NoneYet /\ DashListFails
    \/ DashStats
    \/ /\ NoneYet
       /\ \E p \in ProxyPaths(eco), up \in UpstreamResponses(eco) :
             /\ up.contentEncoding = "" /\ up.contentLength >= 0
             /\ Proxy("GET", <<"h", "1">>, p, up)

FrameSpec == Init /\ [][FrameNext]_vars

\* the root handler alone: every request is classified and either enters the
\* download handler or goes to the reverse proxy
NextRoute ==
    \/ \E r \in Requests, m \in Methods, p \in RequestPaths(eco) : Intercept(r, m, p)
    \/ \E m \in Methods, p \in RequestPaths(eco) : Forward(m, p)

RouteSpec == Init /\ [][NextRoute]_vars

\* the paths PyPI clients send: artifacts in lower, upper and mixed case,
\* and paths that only resemble them
PyPIPathList ==
    << <<"/","a",".","w","h","l">>,
       <<"/","a",".","W","H","L">>,
       <<"/","a",".","T","a","r",".","G","z">>,
       <<"/","a",".","t","a","r",".","b","z","2">>,
       <<"/","a",".","Z","i","p">>,
       <<"/","a",".","e","g","g">>,
       <<"/","a",".","g","z">>,
       <<"/","a",".","t","a","r">>,
       <<"/","a",".","w","h","l","/">>,
       <<"/","a",".","e","g","g","-","i","n","f","o">>,
       <<"/","w","h","l">>,
       <<"/","s","i","m","p","l","e","/","a","/">> >>

PyPIPaths == { PyPIPathList[i] : i \in DOMAIN PyPIPathList }

\* the root handler of the PyPI server alone, on these paths
ClassifyNext ==
    /\ eco = "pypi"
    /\ \/ \E r \in Requests : pc[r] = "idle" /\ \E p \in PyPIPaths : Derive(r, p)
       \/ \E m \in Methods, p \in PyPIPaths : Forward(m, p)

ClassifySpec == Init /\ [][ClassifyNext]_vars

\* the derivation of the file name alone, for any artifact path, while a
\* purge request changes the cache directory and the table
KeyNext ==
    \/ \E r \in Requests : pc[r] = "idle" /\ \E p \in KeyPaths(eco) : Derive(r, p)
    \/ Purge

KeySpec == Init /\ [][KeyNext]_vars

(***************************************************************************)
(* Properties                                                              *)
(***************************************************************************)
Started(r) == pc[r] # "idle"
Done(r) == pc[r] = "done"

\* the upstream GET of r is issued and its body is not yet read to the end
InFlight(r) == pc[r] \in {"await", "create", "copy"}

\* the requests that asked for the file name k
For(k) == {r \in Requests : Started(r) /\ fileName[r] = k}

\* a file a download installed, with content
Installed(f) == f.exists /\ f.src # 0 /\ f.size > 0

\* C1: for every cache key, at most one upstream GET is in flight at any time,
\* whatever the interleaving of the concurrent download requests.
C1_OneFetchInFlight ==
    \A k \in Keys(eco) : Cardinality({r \in For(k) : InFlight(r)}) <= 1

\* one request is fetching while another request for the same key waits for
\* the mutex
C1_Witness ==
    \E r, q \in Requests :
        /\ r # q
        /\ fileName[r] = fileName[q]
        /\ InFlight(r)
        /\ pc[q] = "lock"

\* one upstream GET in total for k, every request answered 200 and all of them
\* served the same file
SingleFetch(k) ==
    /\ Cardinality({r \in For(k) : gets[r] > 0}) = 1
    /\ \A r \in For(k) : gets[r] <= 1 /\ status[r] = "200"
    /\ \A r, q \in For(k) : served[r] = served[q]

\* the requests for k have all returned; there was no file at the final path at
\* start, every upstream answer was a 200 and no local write failed
ColdAllOK(k) ==
    /\ For(k) # {}
    /\ ~files0[k].exists
    /\ \A r \in For(k) : Done(r) /\ resp[r] # "failed" /\ status[r] # "500"

\* C2 as stated: N requests for one artifact on a cold cache, with the upstream
\* answering 200: one upstream GET in total, every request answers 200 and all
\* are served the same file.
C2_ColdCacheSingleFetch ==
    \A k \in Keys(eco) : ColdAllOK(k) => SingleFetch(k)

\* C2 amended: the same, when the upstream bodies are not empty; then the
\* requests that waited on the lock find the file in the double check.
C2_ColdCacheSingleFetchNonEmpty ==
    \A k \in Keys(eco) :
        (ColdAllOK(k) /\ \A r \in For(k) : gets[r] > 0 => bodyLen[r] > 0)
            => SingleFetch(k)

\* three requests for one key have returned; one fetched, the two others took
\* the mutex and recorded a hit in the double check
C2_Witness ==
    \E k \in Keys(eco) :
        /\ ColdAllOK(k)
        /\ Cardinality(For(k)) >= 3
        /\ \E r \in For(k) : gets[r] = 1 /\ bodyLen[r] > 0
        /\ Cardinality({r \in For(k) : lock[r] # 0 /\ rec[r] = <<"hit">>}) >= 2

\* a file at a final path that a download produced has the size that download
\* copied, which is the whole upstream body, and that download is past its
\* rename
FinalComplete ==
    \A k \in Keys(eco) :
        LET f == files[k]
        IN  f.exists /\ f.src # 0 =>
                /\ f.size = written[f.src]
                /\ f.size = bodyLen[f.src]
                /\ pc[f.src] \in {"serve", "done"}

\* a step that puts a file at a final path is the rename of its temp file
OnlyRenameInstalls ==
    \A k \in Keys(eco) :
        (files'[k].exists /\ files'[k] # files[k]) =>
            \E r \in Requests :
                /\ pc[r] = "rename" /\ pc'[r] = "serve"
                /\ localPath(r) = k
                /\ files'[k] = files[TempPath(k)]

\* C3: in every reachable state a file at a final path is complete (its size
\* is the number of bytes its download copied), a download in progress has its
\* bytes at the temp path only, and the rename of the temp file is the only
\* step that puts content at a final path.
C3_FinalFilesComplete == []FinalComplete /\ [][OnlyRenameInstalls]_vars

\* a download has installed its file at the final path while another request
\* for the key is under way
C3_Witness ==
    \E k \in Keys(eco) :
        /\ Installed(files[k])
        /\ \E q \in For(k) : q # files[k].src /\ ~Done(q)

\* C4: when the download handler has returned, whatever the status, the temp
\* file the request created is not on disk.
C4_NoTempSurvives ==
    \A r \in Requests :
        Done(r) => ~(files[tempPath(r)].exists /\ files[tempPath(r)].src = r)

\* a request failed with 500 after it had written a byte to its temp file
C4_Witness ==
    \E r \in Requests : Done(r) /\ status[r] = "500" /\ written[r] > 0

\* C5: every download request ends with 200, 500 or 502.
C5_StatusIs200or500or502 ==
    \A r \in Requests : Done(r) => status[r] \in {"200", "500", "502"}

\* C6: a request records at most one of hit and miss, never both, and a
\* request that returns without a record is one whose upstream fetch failed.
C6_OneRecordPerRequest ==
    \A r \in Requests :
        /\ Len(rec[r]) <= 1
        /\ Done(r) => (Len(rec[r]) = 1 \/ status[r] = "502")

\* one request has returned with a hit and another with a miss
C6_Witness ==
    \E r, q \in Requests :
        /\ Done(r) /\ rec[r] = <<"hit">>
        /\ Done(q) /\ rec[q] = <<"miss">>

\* r1 ran alone on a cold cache and was answered 200 by the upstream without
\* a local write failing; r2 arrived after r1 had returned
Successive(r1, r2) ==
    /\ r1 # r2
    /\ Done(r1) /\ Done(r2)
    /\ fileName[r1] = fileName[r2]
    /\ ~files0[fileName[r1]].exists
    /\ \A q \in For(fileName[r1]) \ {r1} : r1 \in start[q].done
    /\ resp[r1] = "200" /\ status[r1] # "500"

MissThenHit(r1, r2) ==
    /\ rec[r1] = <<"miss">> /\ gets[r1] = 1
    /\ rec[r2] = <<"hit">> /\ gets[r2] = 0 /\ status[r2] = "200"

\* C7 as stated: two successive GETs of one artifact on a cold cache, with the
\* upstream answering 200, give one miss and then one hit, and every later
\* request for the key hits without an upstream GET.
C7_MissThenHit ==
    \A r1, r2 \in Requests : Successive(r1, r2) => MissThenHit(r1, r2)

\* C7 amended: the same, when the upstream body is not empty.
C7_MissThenHitNonEmpty ==
    \A r1, r2 \in Requests :
        (Successive(r1, r2) /\ bodyLen[r1] > 0) => MissThenHit(r1, r2)

\* the first request fetched and installed, and two later requests were
\* served from the fast path
C7_Witness ==
    \E r1, r2, r3 \in Requests :
        /\ r2 # r3
        /\ Successive(r1, r2) /\ Successive(r1, r3)
        /\ bodyLen[r1] > 0
        /\ MissThenHit(r1, r2) /\ MissThenHit(r1, r3)
        /\ lock[r2] = 0 /\ lock[r3] = 0

\* the purge request named the key of r and had returned when r arrived, and
\* r is the first request for that key to arrive after it
NextAfterPurge(r) ==
    /\ Done(r)
    /\ start[r].purged
    /\ \E i \in DOMAIN packages : packages[i] = fileName[r]
    /\ \A q \in For(fileName[r]) \ {r} : start[q].purged => r \in start[q].done

\* C8 as stated: after a purge naming N has completed, the next GET for the
\* key N is a miss with exactly one upstream fetch.
C8_MissAfterPurge ==
    \A r \in Requests :
        NextAfterPurge(r) => rec[r] = <<"miss">> /\ gets[r] = 1

\* C8 amended: the same, when no download request was in progress while the
\* purge request ran.
C8_MissAfterQuietPurge ==
    \A r \in Requests :
        (NextAfterPurge(r) /\ quiet) => rec[r] = <<"miss">> /\ gets[r] = 1

\* a request installed the artifact, then the purge ran alone, then the next
\* request for the key missed and fetched
C8_Witness ==
    \E r, q \in Requests :
        /\ NextAfterPurge(r) /\ quiet
        /\ q \in start[r].done /\ ~start[q].purged
        /\ fileName[q] = fileName[r]
        /\ status[q] = "200" /\ gets[q] = 1 /\ bodyLen[q] > 0
        /\ rec[r] = <<"miss">> /\ gets[r] = 1

\* the file at the final path of r is there and empty
ZeroLength(r) ==
    /\ Started(r)
    /\ files[localPath(r)].exists /\ files[localPath(r)].size = 0

\* the steps of a request whose final path holds a zero-length file
ZeroLengthIsMiss ==
    \A r \in Requests :
        ZeroLength(r) =>
            /\ (pc[r] = "stat1" /\ pc'[r] # "stat1") =>
                   pc'[r] = "getlock" /\ rec'[r] = <<>>
            /\ (pc[r] = "recheck" /\ pc'[r] # "recheck") =>
                   pc'[r] = "miss" /\ rec'[r] = <<>>
            /\ (pc[r] = "miss" /\ pc'[r] # "miss") =>
                   pc'[r] = "await" /\ rec'[r] = <<"miss">> /\ gets'[r] = 1

\* C9: a request that finds a zero-length file at its final path does not
\* record a hit or serve it: from the fast-path check it goes on to the lock
\* registry, and from the double check to recording a miss and fetching.
C9_ZeroLengthIsMiss == [][ZeroLengthIsMiss]_vars

\* a request that arrived to a zero-length file has recorded a miss and waits
\* for the upstream while the file is still there
C9_Witness ==
    \E r \in Requests :
        /\ start[r].file.exists /\ start[r].file.size = 0
        /\ ZeroLength(r)
        /\ pc[r] = "await" /\ rec[r] = <<"miss">>

\* C10: a request enters the download handler only if it is a GET whose path
\* satisfies the artifact predicate, and every other request is proxied.
C10_OnlyGetArtifactsIntercepted ==
    /\ \A r \in Requests :
           Started(r) => method[r] = "GET" /\ ArtifactPath(eco, path[r])
    /\ proxied # NoRequest =>
           ~(proxied.method = "GET" /\ ArtifactPath(eco, proxied.path))

\* the path has the form /@scope/name/-/name-ver.tgz
ScopedForm(p) ==
    LET parts == Split(p, <<"/">>)
    IN  /\ Len(parts) = 5
        /\ parts[1] = <<>>
        /\ HasPrefix(parts[2], <<"@">>) /\ Len(parts[2]) > 1
        /\ Len(parts[3]) > 0
        /\ parts[4] = <<"-">>
        /\ HasPrefix(parts[5], parts[3])
        /\ HasSuffix(parts[5], <<".","t","g","z">>)

\* @scope__name-ver.tgz
ScopedKey(p) ==
    LET parts == Split(p, <<"/">>)
    IN  parts[2] \o <<"_","_">> \o parts[5]

\* C11: the NPM file name of /@scope/name/-/name-ver.tgz is
\* @scope__name-ver.tgz, and the file name of every other path is its basename.
C11_ScopedKey ==
    eco = "npm" =>
        \A r \in Requests :
            Started(r) =>
                fileName[r] = IF ScopedForm(path[r]) THEN ScopedKey(path[r])
                              ELSE Base(path[r])

\* C12: in each ecosystem two distinct artifact paths never get the same file
\* name.
C12_KeysInjective ==
    \A r, q \in Requests :
        (Started(r) /\ Started(q) /\ path[r] # path[q]) => fileName[r] # fileName[q]

\* s has no path separator
NoSlash(s) == \A i \in DOMAIN s : s[i] # "/"

\* C13: the file name is a function of the path alone: the name a request
\* derived is the name its path gives in any later state, two requests with
\* one path have one name, and the name and its temp name have no "/".
C13_KeyPureNoSlash ==
    \A r \in Requests :
        Started(r) =>
            /\ fileName[r] = FileName(eco, path[r])
            /\ \A q \in Requests :
                   (Started(q) /\ path[q] = path[r]) => fileName[q] = fileName[r]
            /\ NoSlash(localPath(r)) /\ NoSlash(tempPath(r))

\* two requests for one nested path derived their name, one while a file was
\* in the cache and one after the purge had removed it
C13_Witness ==
    \E r, q \in Requests :
        /\ Started(r) /\ Started(q)
        /\ path[r] = path[q]
        /\ Len(Split(path[r], <<"/">>)) > 2
        /\ start[r].file.exists /\ ~start[q].file.exists
        /\ fileName[r] = fileName[q]

\* the job that request h started is running
Running(h) == jpc[h] \in {"truncate", "reset", "walk", "exit", "clear"}

\* the flag and the time change only in a step of the holder of refreshMutex
WrittenUnderMutex ==
    (refreshInProgress' # refreshInProgress \/ lastRefreshTime' # lastRefreshTime)
        => /\ refreshMutex # 0
           /\ \/ refreshMutex \in RefreshReqs /\ rpc'[refreshMutex] # rpc[refreshMutex]
              \/ \E h \in RefreshReqs :
                     refreshMutex = JobOf(h) /\ jpc'[h] # jpc[h]

\* C14: at most one refresh job runs at any time, two jobs begin at least 30
\* minutes apart, and the in-progress flag and the last refresh time are
\* written only by the holder of the refresh mutex.
C14_OneRefreshPerWindow ==
    /\ [](/\ Cardinality({h \in RefreshReqs : Running(h)}) <= 1
          /\ refreshInProgress = (\E h \in RefreshReqs : Running(h))
          /\ \A h1, h2 \in RefreshReqs :
                 (h1 # h2 /\ began[h1] # 0 /\ began[h2] >= began[h1])
                     => began[h2] - began[h1] >= RefreshWindow)
    /\ [][WrittenUnderMutex]_vars

\* a second job runs, 30 minutes or more after the first one began
C14_Witness ==
    \E h1, h2 \in RefreshReqs :
        /\ began[h1] # 0
        /\ jpc[h1] = "finished"
        /\ began[h2] >= began[h1] + RefreshWindow
        /\ Running(h2)

\* request h2 was a POST decided less than 30 minutes after request h1 had
\* been accepted
Blocked(h1, h2) ==
    /\ h1 # h2
    /\ began[h1] # 0
    /\ rpc[h2] = "done"
    /\ rresp[h2].message # "Method not allowed"
    /\ rresp[h2].at >= began[h1]
    /\ rresp[h2].at - began[h1] < RefreshWindow

MessageByFlag ==
    \A h \in RefreshReqs :
        (rpc[h] = "check" /\ rpc'[h] = "done") =>
            IF refreshInProgress
            THEN rresp'[h].message = "in progress"
            ELSE /\ rresp'[h].message = "wait"
                 /\ rresp'[h].remaining = RefreshWindow - (now - lastRefreshTime)
                 /\ rresp'[h].remaining > 0

UpstreamFailed(r) == resp[r] = "failed"

\* the step in which the upstream GET of r fails leaves the cache directory as
\* it was, answers 502 and leaves the mutex of r unlocked
FailureStep ==
    \A r \in Requests :
        (~UpstreamFailed(r) /\ UpstreamFailed(r)') =>
            /\ files' = files
            /\ status'[r] = "502"
            /\ Done(r)'
            /\ owner'[lock[r]] = 0

\* C16: when the upstream GET fails with a transport error or a status other
\* than 200, the request responds 502, no file is created at the final or the
\* temp path, and the per-key lock is released so that a later request for
\* the same key can acquire it.
C16_UpstreamFailure ==
    /\ [](\A r \in Requests :
            /\ status[r] = "502" <=> UpstreamFailed(r)
            /\ UpstreamFailed(r) =>
                  /\ Done(r)
                  /\ owner[lock[r]] # r
                  /\ \A n \in DOMAIN files : files[n].exists => files[n].src # r)
    /\ [][FailureStep]_vars

\* a request got 502, and a request for the same key that arrived after it
\* holds the same mutex
C16_Witness ==
    \E r1, r2 \in Requests :
        /\ r1 # r2
        /\ status[r1] = "502"
        /\ r1 \in start[r2].done
        /\ fileName[r2] = fileName[r1]
        /\ lock[r2] = lock[r1]
        /\ owner[lock[r1]] = r2

\* the steps between os.Create(tempPath) and os.Rename: a request that
\* returns from one of them returns on a local I/O failure
LocalSteps == {"create", "copy", "verify", "rename"}

\* a step in which r returns on a local I/O failure answers 500, leaves no
\* temp file of r, leaves the mutex of r unlocked and leaves the final path
\* as it was
LocalFailureStep ==
    \A r \in Requests :
        (pc[r] \in LocalSteps /\ Done(r)') =>
            /\ status'[r] = "500"
            /\ ~files'[tempPath(r)].exists
            /\ owner'[lock[r]] = 0
            /\ files'[localPath(r)] = files[localPath(r)]

\* C17: on every local I/O failure during download (temp file cannot be
\* created, body copy fails, temp cannot be stat'ed, written size differs
\* from copied bytes, rename fails) the request responds 500, the temp file
\* is unlinked, the per-key lock is released, and the final path is left as
\* it was.
C17_LocalFailureIs500 == [][LocalFailureStep]_vars

\* the name n is one of the names of the list
Listed(list, n) == \E i \in DOMAIN list : list[i] = n

\* the name n matches one of the list's names, read as glob patterns
Globbed(list, n) == \E i \in DOMAIN list : Match(list[i], n)

\* the step that ends a purge request with a non-empty list: the rows of the
\* listed names are gone and every other row is as it was, the response is
\* success=true with the list in deleted, and, when no download request ran
\* beside the purge request, no file matching a name of the list is left
PurgeCompletes ==
    (ppc = "db" /\ ppc' = "done") =>
        LET list == preq.body.packages
        IN  /\ preq.method = "POST" /\ Len(list) > 0
            /\ \A n \in DOMAIN rows :
                  rows'[n] = IF Listed(list, n) THEN NoRow ELSE rows[n]
            /\ presp'.code = "200" /\ presp'.success /\ presp'.deleted = list
            /\ quiet => \A n \in DOMAIN files :
                            Globbed(list, n) => ~files'[n].exists

\* the elements of a sequence
Range(q) == { q[i] : i \in DOMAIN q }

\* whatever download requests run beside it, the purge request takes each
\* name of the list in turn, finds every file that matches it at that moment
\* and unlinks every file it found before it goes on
PurgeUnlinksMatches ==
    /\ pidx' # pidx =>
          /\ pidx' = pidx + 1
          /\ Range(matches') =
                {n \in DOMAIN files : files[n].exists /\ Match(packages'[pidx'], n)}
    /\ ppc = "remove" /\ ppc' # ppc => Len(matches) = 1
    /\ matches' # matches /\ pidx' = pidx =>
          /\ matches' = Tail(matches)
          /\ ~files'[Head(matches)].exists
    /\ ppc' = "db" /\ ppc # "db" => pidx' = Len(preq'.body.packages)

C18_StarKeepsRows ==
    /\ ppc = "done" /\ quiet
    /\ preq.body.packages = << <<"*">> >>
    /\ \E n \in DOMAIN rows : rows[n] # NoRow

\* the purge request is one the handler turns away or has nothing to do for
NotPost == preq.method # "POST"
Unparseable == preq.method = "POST" /\ ~preq.body.ok
EmptyList == preq.method = "POST" /\ preq.body.ok /\ Len(preq.body.packages) = 0

\* the step in which such a request arrives answers it, and leaves the cache
\* directory and the table as they were
PurgeTurnedAway ==
    (preq' # preq /\ (NotPost' \/ Unparseable' \/ EmptyList')) =>
        /\ ppc' = "done"
        /\ presp' # NoPurgeResponse
        /\ files' = files
        /\ rows' = rows

\* C19: a purge request is rejected or is a no-op without touching state in
\* three cases: a method other than POST gives 405, an unparseable body gives
\* 400, and an empty package list gives success=true with a no-op message; in
\* all three cases no cache file is unlinked and no stats row is deleted.
C19_PurgeRejectedOrNoOp ==
    /\ [](ppc = "done" =>
            /\ NotPost <=> presp.code = "405"
            /\ Unparseable <=> presp.code = "400"
            /\ EmptyList <=> (presp.success /\ presp.message = "No packages to purge")
            /\ (NotPost \/ Unparseable) => ~presp.success
            /\ (NotPost \/ Unparseable \/ EmptyList) => presp.deleted = <<>>)
    /\ [][PurgeTurnedAway]_vars

\* a GET that names a cached file was answered 405, and the file a request
\* installed and the row it recorded are still there
C19_Witness ==
    \E r \in Requests :
        /\ Done(r) /\ status[r] = "200" /\ rec[r] # <<>>
        /\ ppc = "done" /\ presp.code = "405"
        /\ preq.body.packages = <<fileName[r]>>
        /\ Installed(files[fileName[r]])
        /\ rows[fileName[r]] # NoRow

\* an unparseable body was answered 400 and an empty list with success
C19_BadBodyAnswered == ppc = "done" /\ Unparseable /\ presp.code = "400"
C19_EmptyListAnswered == ppc = "done" /\ EmptyList /\ presp.success

\* the calls of record_package_access made for the name k, and those of them
\* made with is_hit
CallsFor(k) == {c \in Calls : cpc[c] # "idle" /\ cname[c] = k}
HitCalls(k) == {c \in CallsFor(k) : chit[c]}

\* no call stands between its UPDATE and its INSERT
AllReturned == \A c \in Calls : cpc[c] \in {"idle", "done", "failed"}

\* C20: record_access is an atomic upsert: for every interleaving of
\* concurrent calls on the same name, including calls that all arrive before
\* any row for that name exists, the table afterwards holds exactly one row
\* for the name whose cache_hit equals the number of hit calls and cache_miss
\* the number of miss calls; no call is lost and no duplicate row is created.
C20_AtomicUpsert ==
    AllReturned =>
        \A k \in Keys(eco) :
            CallsFor(k) # {} =>
                /\ Len(rows[k]) = 1
                /\ rows[k][1].hit = Cardinality(HitCalls(k))
                /\ rows[k][1].miss = Cardinality(CallsFor(k) \ HitCalls(k))

\* calls that run one after the other leave one row with every call counted
C20_Sequential ==
    /\ AllReturned
    /\ \A c \in Calls : cpc[c] = "done"
    /\ \A k \in Keys(eco) :
          /\ Len(rows[k]) = 1
          /\ rows[k][1].hit + rows[k][1].miss = Cardinality(CallsFor(k))

\* the client of r went away while r was downloading, and r has returned
Cancelled(r) == gone[r] /\ Done(r)

C21_CancelledReleases ==
    \A r \in Requests :
        Cancelled(r) =>
            /\ owner[lock[r]] # r
            /\ ~Linked(r)
            /\ (files[localPath(r)].exists /\ files[localPath(r)].src = r) =>
                  (written[r] = bodyLen[r] /\ files[localPath(r)].size = bodyLen[r])

\* the artifact endings of PyPI
PyPIEndings ==
    { <<".","w","h","l">>, <<".","t","a","r",".","g","z">>, <<".","z","i","p">>,
      <<".","e","g","g">>, <<".","t","a","r",".","b","z","2">> }

\* the letters c and d differ at most in case
SameLetter(c, d) ==
    \/ c = d
    \/ \E i \in DOMAIN UpperChars :
          {c, d} = {UpperChars[i], LowerChars[i]}

\* the path ends in x, whatever the case of its letters
EndsInAnyCase(s, x) ==
    /\ Len(s) >= Len(x)
    /\ \A i \in DOMAIN x : SameLetter(s[Len(s) - Len(x) + i], x[i])

\* the path ends in one of the artifact endings, whatever the case
PyPIArtifact(s) == \E x \in PyPIEndings : EndsInAnyCase(s, x)

\* C22: the PyPI artifact predicate is case-insensitive: a path is classified
\* as an artifact exactly when its lower-cased form ends in one of .whl,
\* .tar.gz, .zip, .egg, .tar.bz2, so .WHL and .Tar.Gz classify as artifacts
\* and no path with any other ending does.
C22_PyPIPredicateAnyCase ==
    eco = "pypi" =>
        /\ \A r \in Requests : pc[r] = "named" => PyPIArtifact(path[r])
        /\ proxied.method = "GET" => ~PyPIArtifact(proxied.path)

\* paths ending in .WHL and in .Tar.Gz went to the download handler, and a
\* GET of a path ending in .gz went to the reverse proxy
C22_Witness ==
    /\ eco = "pypi"
    /\ \E r \in Requests :
          pc[r] = "named" /\ HasSuffix(path[r], <<".","W","H","L">>)
    /\ \E r \in Requests :
          pc[r] = "named" /\ HasSuffix(path[r], <<".","T","a","r",".","G","z">>)
    /\ proxied = [method |-> "GET", path |-> <<"/","a",".","g","z">>]

\* the text of the response the upstream gave, gzip undone
Ungzipped == IF upresp.contentEncoding = "gzip" THEN Gunzip(upresp.body)
             ELSE upresp.body

\* a PyPI request went through the reverse proxy, its path contains /simple/
\* and the Content-Type of its response contains html or json
SimpleExchange ==
    /\ eco = "pypi"
    /\ asked # NoAsk
    /\ Contains(asked.path, <<"/","s","i","m","p","l","e","/">>)
    /\ \/ Contains(upresp.contentType, <<"h","t","m","l">>)
       \/ Contains(upresp.contentType, <<"j","s","o","n">>)

\* the body the client received is the text of the upstream with the CDN
\* origin replaced by http:// and the Host the client sent, under a
\* Content-Length of its own length
RewrittenForClient ==
    /\ reply.body = ReplaceAll(Ungzipped, PyPICDN, <<"h","t","t","p",":","/","/">> \o asked.host)
    /\ reply.contentLength = Len(reply.body)
    /\ reply.complete
    /\ outreq.host = TargetHost("pypi")
    /\ ~Contains(reply.body, TargetHost("pypi"))

NPMExchange == eco = "npm" /\ asked # NoAsk

\* the condition under which the NPM server rewrites a response
NPMMetadata ==
    /\ ~HasSuffix(asked.path, <<".","t","g","z">>)
    /\ Contains(upresp.contentType,
                <<"a","p","p","l","i","c","a","t","i","o","n","/","j","s","o","n">>)

\* C24: for a proxied NPM request whose path does not end in .tgz and whose
\* response Content-Type contains application/json, every occurrence of the
\* upstream origin URL in the body is replaced by
\* http://<listen-host>:<listen-port> and the Content-Length sent to the
\* client is recomputed to the length of the rewritten body (a chunked
\* response carries none); responses not meeting the condition are passed
\* through with body and length unchanged.
C24_NPMRewritten ==
    NPMExchange =>
        IF NPMMetadata
        THEN /\ reply.body = ReplaceAll(upresp.body, NPMUpstream, ProxyAddr)
             /\ reply.contentLength \in {-1, Len(reply.body)}
             /\ reply.complete
        ELSE reply = upresp

\* a metadata response with a Content-Length header and a URL of the upstream
\* reached the client rewritten, under the Content-Length of the upstream
C24_StaleLength ==
    /\ NPMExchange /\ NPMMetadata
    /\ Contains(upresp.body, NPMUpstream)
    /\ ~Contains(reply.body, NPMUpstream)
    /\ reply.contentLength = upresp.contentLength
    /\ reply.contentLength > Len(reply.body)
    /\ ~reply.complete

\* the path without its leading "/", with every "/" replaced by "__"
Underscored(urlPath) == ReplaceAll(TrimPrefix(urlPath, <<"/">>), <<"/">>, <<"_","_">>)

\* C25: the PyPI cache key of a path is the entire path without its leading
\* "/", with every "/" separator replaced by "__" (packages/source/p/pkg/
\* pkg-1.0.tar.gz gives packages__source__p__pkg__pkg-1.0.tar.gz), for paths
\* with one component as well as several.
C25_PyPIKey ==
    eco = "pypi" =>
        \A r \in Requests : Started(r) => fileName[r] = Underscored(path[r])

\* the key of /packages/source/p/pkg/pkg-1.0.tar.gz and the key of a path
\* with one component have been derived
C25_Witness ==
    /\ eco = "pypi"
    /\ \E r \in Requests :
          /\ path[r] = PyPISourcePath
          /\ fileName[r] =
                <<"p","a","c","k","a","g","e","s","_","_","s","o","u","r","c","e",
                  "_","_","p","_","_","p","k","g","_","_",
                  "p","k","g","-","1",".","0",".","t","a","r",".","g","z">>
    /\ \E r \in Requests :
          /\ path[r] = <<"/","a",".","z","i","p">>
          /\ fileName[r] = <<"a",".","z","i","p">>

\* the file at final exists and cannot be read, or holds nothing
UnreadableOrEmpty(f) == f.exists /\ (~f.readable \/ f.size = 0)

\* a request that leaves the fast path for the lock registry while such a
\* file is at its final path leaves with the file unlinked
FastPathUnlinks ==
    \A r \in Requests :
        (pc[r] \in {"stat1", "open1", "remove1"} /\ pc'[r] = "getlock"
            /\ UnreadableOrEmpty(files[localPath(r)]))
        => ~files'[localPath(r)].exists

\* C26: in the fast-path cache check, a file at final that exists but is
\* unreadable or zero-length is unlinked before the request continues to the
\* single-flight lock; this holds for the zero-length case as well as the
\* unreadable case.
C26_FastPathUnlinks == [][FastPathUnlinks]_vars

\* the same for the unreadable file with content alone
C26_FastPathUnlinksUnreadable ==
    [][\A r \in Requests :
          (pc[r] \in {"stat1", "open1", "remove1"} /\ pc'[r] = "getlock"
              /\ files[localPath(r)].exists /\ ~files[localPath(r)].readable
              /\ files[localPath(r)].size > 0)
          => ~files'[localPath(r)].exists]_vars

\* a request has passed the fast path and stands at the lock registry with a
\* zero-length file still at its final path
C26_EmptyFileKept ==
    \E r \in Requests :
        /\ pc[r] = "getlock"
        /\ files[localPath(r)].exists
        /\ files[localPath(r)].size = 0

\* r stands between lock.Lock() and its return on the download path
UnderLock(r) ==
    pc[r] \in {"recheck", "miss", "await", "create", "copy", "verify", "rename"}

\* r writes its temp file or renames it onto final
Writing(r) == pc[r] \in {"create", "copy", "verify", "rename"}

\* C27: the per-key lock is held continuously from the post-lock re-check
\* through upstream fetch, temp write, size verification and rename, so that
\* for each key at most one request at a time is writing its temp path or
\* renaming onto its final path; no two requests ever write to the same
\* final path concurrently.
C27_LockHeldThroughRename ==
    /\ \A r \in Requests :
          UnderLock(r) =>
              /\ lock[r] = downloadLocks[fileName[r]]
              /\ owner[lock[r]] = r
    /\ \A k \in Keys(eco) : Cardinality({r \in For(k) : Writing(r)}) <= 1

\* one request copies the body into its temp file while another request for
\* the same key waits for the mutex
C27_Witness ==
    \E r1, r2 \in Requests :
        /\ fileName[r1] = fileName[r2]
        /\ pc[r1] = "copy" /\ written[r1] > 0
        /\ pc[r2] = "lock"
        /\ lock[r2] = lock[r1]

\* ---- C28 ----

InRegistry(r) == pc[r] \in {"lookup", "reginsert", "regunlock"}

\* the request in the way of r at lock.Lock() asked for the same cache key
BlockedBySameKey(r) ==
    (pc[r] = "lock" /\ owner[lock[r]] # 0) => fileName[owner[lock[r]]] = fileName[r]

\* C28: requests for different cache keys do not block one another: a request
\* waiting for a per-key lock waits only for a request of the same key, and
\* downloadLocksMutex is held only between its Lock() and Unlock() around the map
\* lookup and insert, never by a request waiting for or holding a per-key lock
C28_DifferentKeysDoNotBlock ==
    /\ downloadLocksMutex # 0 => InRegistry(downloadLocksMutex)
    /\ \A r \in Requests : (pc[r] = "lock" \/ UnderLock(r)) => downloadLocksMutex # r
    /\ \A r \in Requests : BlockedBySameKey(r)

\* a request for key B took B's lock and finished with 200 while a request for
\* key A held A's lock, and that request is still waiting for its upstream
C28_Witness ==
    \E a, b \in Requests :
        /\ fileName[a] # fileName[b]
        /\ pc[a] = "await" /\ lock[a] # 0 /\ owner[lock[a]] = a
        /\ a \in beside[b]
        /\ pc[b] = "done" /\ status[b] = "200"

\* ---- C29 ----

RegistryKeeps ==
    \A k \in DOMAIN downloadLocks :
        downloadLocks[k] # 0 => downloadLocks'[k] = downloadLocks[k]

RegistryMadeUnderLock ==
    downloadLocks' # downloadLocks =>
        /\ downloadLocksMutex # 0
        /\ pc[downloadLocksMutex] = "reginsert"
        /\ \A k \in DOMAIN downloadLocks :
              downloadLocks'[k] # downloadLocks[k] => k = fileName[downloadLocksMutex]

SameMutex ==
    \A r \in Requests : lock[r] # 0 => lock[r] = downloadLocks[fileName[r]]

\* C29: the registry maps each key to one mutex for the life of the process: an
\* entry is made under downloadLocksMutex, is never removed or replaced, and
\* every request holds the mutex the registry has for its key, so two requests
\* for the same key hold the same mutex however their lookups interleave
C29_RegistryOneMutexPerKey ==
    []SameMutex /\ [][RegistryKeeps /\ RegistryMadeUnderLock]_vars

\* two requests for one key came to the registry together and have the same
\* mutex: one holds it, the other waits for it
C29_Witness ==
    \E r1, r2 \in Requests :
        /\ r1 # r2 /\ fileName[r1] = fileName[r2]
        /\ lock[r1] # 0 /\ lock[r1] = lock[r2]
        /\ pc[r1] = "recheck" /\ owner[lock[r1]] = r1
        /\ pc[r2] = "lock"
        /\ r1 \notin start[r2].done /\ r2 \notin start[r1].done

\* ---- C30 ----

\* the step unlinks the file at the final path k
RemovedFinal(k) == files[k].exists /\ ~files'[k].exists

\* the step is purgeHandler's os.Remove(match)
ByPurge == ppc = "remove" /\ matches' = Tail(matches)

\* the step is the os.Remove(localPath) of a request whose os.Open failed
ByPipeline(k) ==
    \E r \in Requests : pc[r] = "remove1" /\ pc'[r] = "getlock" /\ localPath(r) = k

\* a step of the refresh handler or its job, of the sampler, of the dashboard
\* handler or of the reverse proxy
AuxStep ==
    \/ <<rpc, rresp, refreshMutex, refreshInProgress, lastRefreshTime, jpc, began>>'
           # <<rpc, rresp, refreshMutex, refreshInProgress, lastRefreshTime, jpc, began>>
    \/ statsVars' # statsVars
    \/ <<proxied, asked, outreq, upresp, reply>>' # <<proxied, asked, outreq, upresp, reply>>

\* C30: a file at a final cache path is unlinked only by the purge handler or by
\* the pipeline's removal after it found the file unreadable, and no step of the
\* refresh job, the stats sampler, the dashboard or the reverse proxy creates,
\* changes or deletes a cache file
C30_OnlyPurgeAndPipelineRemove ==
    [][ /\ \A k \in AllKeys(eco) : RemovedFinal(k) => (ByPurge \/ ByPipeline(k))
        /\ AuxStep => files' = files ]_vars

\* the refresh job has walked the cache directory and gone, the download and
\* the purge request are over, and a file the process started with is unlinked
C30_Witness ==
    /\ jpc[1] = "finished"
    /\ pc[1] = "done" /\ ppc = "done"
    /\ \E k \in AllKeys(eco) : files0[k].exists /\ ~files[k].exists

\* ---- C31 ----

\* the dashboard request has its copy of the four fields
Copied == dpc = "done" /\ dash.code = "200"

\* C31: the snapshot is published atomically: the four values a dashboard
\* request has copied were assigned by one and the same run of updateStats,
\* however the sampler's update and the read interleave
C31_SnapshotOfOneRun ==
    Copied => \A f, g \in StatFields : seen[f] = seen[g]

\* the dashboard request copied the four values of a run of the ticker, and
\* that run counted another number of files than the run at start
C31_Witness ==
    /\ Copied
    /\ \A f \in StatFields : seen[f] = 1
    /\ dash.stats.FileCount # FileCount(files0)

\* ---- C32 ----

\* request r has called UpdatePackageAccess and the table has not changed
StoreFailStep(r) == rec'[r] # rec[r] /\ rows' = rows

\* the step goes on as the step of a call that succeeds does: to http.ServeFile
\* after a hit, to http.Get after a miss, no response written, no file touched
GoesOn(r) ==
    /\ files' = files /\ status' = status /\ served' = served /\ owner' = owner
    /\ IF rec'[r][Len(rec'[r])] = "hit"
       THEN pc'[r] = "serve" /\ gets' = gets
       ELSE pc'[r] = "await" /\ gets'[r] = gets[r] + 1

\* C32: a failure of the stats store never changes the outcome of an artifact
\* request: the step in which UpdatePackageAccess fails leaves the response and
\* the cache files alone and continues where the step of a successful call does
C32_StoreFailureIgnored ==
    [][\A r \in Requests : StoreFailStep(r) => GoesOn(r)]_vars

\* a request whose miss the store did not record has installed the file and
\* answered 200 with it
C32_Witness ==
    \E r \in Requests :
        /\ Done(r) /\ status[r] = "200"
        /\ rec[r] = <<"miss">> /\ rows[fileName[r]] = <<>>
        /\ served[r].exists /\ files[localPath(r)] = served[r]

\* ---- C33 ----

\* the handler of accepted request h writes its response
RespondStep(h) == rpc[h] = "respond" /\ rpc'[h] = "done"

\* the job of request h walks the cache directory
WalkStep(h) == jpc[h] = "walk" /\ jpc'[h] = "exit"

\* no row has come into the table since the job truncated it
StillTruncated == \A n \in DOMAIN rows : rows[n] = NoRow

\* one row with zero counters for every file in the directory, and no other
OneZeroRowPerFile(table, dir) ==
    \A n \in DOMAIN table :
        table[n] = IF dir[n].exists THEN <<Row(0, 0)>> ELSE NoRow

\* C33: an accepted refresh answers with success without waiting for its job,
\* and a job that walks a table nobody has written to since the truncation
\* leaves one row with zero counters for every file in the cache directory and
\* no other row, and leaves the files as they are
C33_RefreshRebuildsTable ==
    [][\A h \in RefreshReqs :
          /\ RespondStep(h) => (rresp'[h].success /\ jpc' = jpc /\ rows' = rows)
          /\ (WalkStep(h) /\ StillTruncated) =>
                (OneZeroRowPerFile(rows', files) /\ files' = files)]_vars

\* the job is over, no download or purge request has come, the response said
\* success, and the table has the one row of the one file in the directory
C33_Witness ==
    /\ jpc[1] = "finished" /\ rpc[1] = "done" /\ rresp[1].success
    /\ pc[1] = "idle" /\ ppc = "idle"
    /\ \E n \in DOMAIN files : files[n].exists
    /\ OneZeroRowPerFile(rows, files)

\* ---- C34 ----

\* request r has the per-key mutex
HoldsLock(r) == lock[r] # 0 /\ owner[lock[r]] = r

\* C34: upstream fetches honor a deadline: a request that waits for the
\* upstream eventually returns and no longer holds the per-key lock, also when
\* the upstream never answers or never ends the body
C34_DeadlineReturns ==
    \A r \in Requests :
        (pc[r] \in {"await", "create", "copy"}) ~> (Done(r) /\ ~HoldsLock(r))

\* a request waits for the upstream with the per-key lock while another
\* request for the key waits for the lock
C34_WaiterBehindSilentUpstream ==
    \E r, q \in Requests :
        /\ pc[r] = "await" /\ owner[lock[r]] = r
        /\ pc[q] = "lock" /\ lock[q] = lock[r]

\* ---- C35 ----

\* C35: every artifact request that returns has made exactly one stats call,
\* also one that ends in 502 or 500: the miss is recorded under the per-key
\* lock before the upstream GET is issued, so a request that has issued a GET
\* or has failed has its one miss on record
C35_OneEventPerReturn ==
    \A r \in Requests :
        /\ Len(rec[r]) <= 1
        /\ Done(r) => Len(rec[r]) = 1
        /\ (gets[r] > 0 \/ status[r] \in {"502", "500"}) => rec[r] = <<"miss">>
        /\ (rec[r] = <<"miss">> /\ ~Done(r)) => HoldsLock(r)

\* one request has ended in 502 and another in 500, each with its one miss
C35_Witness ==
    \E r, q \in Requests :
        /\ Done(r) /\ status[r] = "502" /\ rec[r] = <<"miss">>
        /\ Done(q) /\ status[q] = "500" /\ rec[q] = <<"miss">>

\* ---- C36 ----

\* the cache directory was empty at start
Cold == \A n \in DOMAIN files0 : ~files0[n].exists

\* every 200 the upstream has given so far came with an empty body
EmptyAnswers == \A q \in Requests : resp[q] = "200" => bodyLen[q] = 0

\* request r got 200 from the upstream and no local step of it failed
Fetched(r) == Done(r) /\ resp[r] = "200" /\ status[r] \notin {"500", "aborted"}

\* C36: when the upstream answers 200 with an empty body the download installs
\* a zero-length file at the final path and answers 200 with it, and the file
\* is never served as a hit: no request records a hit and every request that
\* returns has issued its own upstream GET, one GET for each request
C36_EmptyBodyNeverHits ==
    (Cold /\ EmptyAnswers) =>
        \A r \in Requests :
            /\ rec[r] # <<"hit">>
            /\ Done(r) => gets[r] = 1
            /\ Fetched(r) =>
                  /\ status[r] = "200"
                  /\ served[r].exists /\ served[r].size = 0
                  /\ files[localPath(r)].exists /\ files[localPath(r)].size = 0

\* three requests for one key have returned 200 with the empty file, each
\* after a miss and an upstream GET of its own
C36_Witness ==
    /\ Cold /\ EmptyAnswers
    /\ \A r \in 1..MaxFlight :
          Fetched(r) /\ gets[r] = 1 /\ rec[r] = <<"miss">> /\ served[r].size = 0
    /\ \A r, q \in 1..MaxFlight : fileName[r] = fileName[q]

\* ---- C37 ----

\* a request that has returned, by whatever exit, does not hold the per-key
\* mutex; no request issues more than one GET and no two GETs run together
ReleasedOnExit ==
    /\ \A r \in Requests : Done(r) => ~HoldsLock(r)
    /\ \A r \in Requests : gets[r] <= 1
    /\ \A k \in Keys(eco) : Cardinality({r \in For(k) : InFlight(r)}) <= 1

\* C37: the per-key lock is released on every exit of the pipeline (hit after
\* the lock, 502, 500, 200 and the panic), and when every upstream call returns
\* every request that waits for the lock gets it; each request issues at most
\* one upstream GET and the GETs for one key never overlap
C37_LockReleasedWaitersProceed ==
    /\ []ReleasedOnExit
    /\ \A r \in Requests : (pc[r] = "lock") ~> (pc[r] # "lock")

\* the leader ended in the panic, and a request that had come before the leader
\* returned has the same mutex now and has issued a GET of its own
C37_Witness ==
    \E r, q \in Requests :
        /\ Done(r) /\ status[r] = "aborted" /\ gets[r] = 1
        /\ r \notin start[q].done /\ lock[q] = lock[r]
        /\ HoldsLock(q) /\ gets[q] = 1 /\ pc[q] = "await"

\* ---- C38 ----

\* request r has renamed its download onto the final path and is about to
\* serve it, still under the lock
JustInstalled(r) == pc[r] = "serve" /\ gets[r] = 1 /\ HoldsLock(r)

\* C38: the removal on the fast path never deletes a file another request has
\* installed by rename in the meantime: a request that has just installed its
\* file finds it at the final path when it serves it, and its client does not
\* get 404
C38_InstalledFileStays ==
    \A r \in Requests :
        /\ JustInstalled(r) => files[localPath(r)].exists
        /\ (Done(r) /\ gets[r] = 1 /\ resp[r] = "200") => status[r] # "404"

\* a request that judged the old file unreadable has removed the complete file
\* another request installed, and that request still is about to serve it
C38_InstalledFileRemoved ==
    \E r, q \in Requests :
        /\ JustInstalled(r) /\ bodyLen[r] > 0 /\ ~files[localPath(r)].exists
        /\ q # r /\ fileName[q] = fileName[r]
        /\ pc[q] = "getlock" /\ start[q].file.exists /\ ~start[q].file.readable

\* ---- C39 ----

\* the handler of request h accepts it and starts the job
AcceptStep(h) == jpc[h] = "none" /\ jpc'[h] = "truncate"

\* the handler of request h rejects it
RejectStep(h) == rpc[h] \in {"idle", "check"} /\ rpc'[h] = "done"

\* the job of request h ends
EndStep(h) == jpc[h] # "finished" /\ jpc'[h] = "finished"

\* the latest time a job was accepted, 0 when none was
LastBegan ==
    IF \A h \in RefreshReqs : began[h] = 0 THEN 0
    ELSE CHOOSE t \in {began[h] : h \in RefreshReqs} :
             \A h \in RefreshReqs : began[h] <= t

\* what a step of the handler or of the job does to the flag and the time
FlagAndTimeStep ==
    \A h \in RefreshReqs :
        /\ AcceptStep(h) =>
               /\ refreshInProgress' /\ lastRefreshTime' = now
               /\ (lastRefreshTime = 0 \/ now - lastRefreshTime >= RefreshWindow)
        /\ EndStep(h) => ~refreshInProgress'
        /\ (jpc'[h] # jpc[h] /\ ~AcceptStep(h)) => lastRefreshTime' = lastRefreshTime
        /\ RejectStep(h) =>
               /\ refreshInProgress' = refreshInProgress
               /\ lastRefreshTime' = lastRefreshTime
               /\ jpc' = jpc

\* C39: every started refresh job eventually clears the in-progress flag, also
\* when truncate, the sequence reset or the walk fails; the last refresh time is
\* the time the latest job was accepted whatever became of the job, a request
\* is accepted only 30 minutes or more after it, and a rejected request
\* changes neither the flag nor the time
C39_JobClearsFlagTimeKept ==
    /\ \A h \in RefreshReqs : Running(h) ~> (jpc[h] = "finished")
    /\ [](lastRefreshTime = LastBegan)
    /\ [][FlagAndTimeStep]_vars
    /\ [](refreshInProgress = (\E h \in RefreshReqs : Running(h)))

\* the first job failed and is over, the flag is clear, and the second request
\* was turned away inside the 30 minutes after the first was accepted
C39_Witness ==
    /\ jpc[1] = "finished" /\ ~refreshInProgress
    /\ \E n \in DOMAIN files : files[n].exists /\ rows[n] = NoRow
    /\ rpc[2] = "done" /\ ~rresp[2].success /\ jpc[2] = "none"
    /\ rresp[2].message = "wait"
    /\ lastRefreshTime = began[1] /\ now > began[1]
    /\ now - lastRefreshTime < RefreshWindow

\* ---- C40 ----

\* C40: a purge request only unlinks files that are direct children of the
\* cache directory: whatever the package names in the body, names with ".."
\* or "/" included, no file outside the cache directory is removed
C40_PurgeStaysInCacheDir == [][outside' = outside]_vars

\* the purge request with the name "../s" is answered with success and the
\* file s beside the cache directory is gone
C40_OutsideFileRemoved ==
    /\ ppc = "done" /\ presp.success
    /\ \E i \in DOMAIN packages : packages[i] = <<".", ".", "/", "s">>
    /\ ~outside[<<".", ".", "/", "s">>]

====
